---- MODULE Spec2Model ----
(***************************************************************************)
(* A model of the pegp parser-combinator library (src/src/index.ts), and   *)
(* of its earlier rules on a TokenStream (src/src/rule.ts, part_005).      *)
(*                                                                         *)
(* The Input object (the lazy lexer) is the record `input`; its methods    *)
(* are operators from Input records to Input records.  Rule execution is   *)
(* an explicit call stack `frames`: every exec() body is cut at its calls  *)
(* into steps, one action per step.  The mutable skippable flags of the    *)
(* TokenRules are the function `skippable`.                                *)
(*                                                                         *)
(* Characters are one-character strings, a source is a sequence of them.   *)
(* Offsets and vector indices are 0-based as in the code; the TLA+         *)
(* sequences are 1-based, hence the +1 at every access.                    *)
(***************************************************************************)
EXTENDS Integers, Sequences, FiniteSets, TLC

VARIABLES
    input,      \* the Input object of the running parse
    skippable,  \* TokenRule.skippable of every TokenRule
    frames,     \* the call stack: parse, exec and nextLexeme activations
    ret,        \* the value returned by the last call that returned
    outcome,    \* how the last parse() ended
    attempts,   \* history: how often tokenisation was tried at each offset
    seen,       \* history: vector indices of the lexemes peek/next returned
    last,       \* history: the last call that returned, entry and exit state
    stream,     \* the TokenStream of the running exec of the rule.ts rules
    sframes,    \* the call stack of that exec
    sret,       \* the value returned by the last exec on the stream
    slast       \* history: the last exec on the stream that returned

\* the state of the rules of rule.ts and part_005, which run on a TokenStream
svars == <<stream, sframes, sret, slast>>

vars == <<input, skippable, frames, ret, outcome, attempts, seen, last,
          stream, sframes, sret, slast>>

----------------------------------------------------------------------------
(* Bounds of the model.                                                    *)

\* longest enumerated source
MaxLen == 3
\* cap on the lexeme vector once lexemes are empty (a token matches empty)
MaxLexemes == 6
\* cap on the result list of a repetition (reached only when it never ends)
MaxRes == 5
\* how often a caller feeds an Input it has used
MaxFeeds == 1
\* how many save calls, and how many rollback and commit calls, a caller makes
MaxSaves == 1

----------------------------------------------------------------------------
(* Values produced by rules.                                               *)

NOMATCH == [t |-> "nomatch"]
Null == [t |-> "null"]
Num(n) == [t |-> "num", v |-> n]
Str(s) == [t |-> "str", v |-> s]
List(s) == [t |-> "list", v |-> s]

IsNoMatch(v) == v.t = "nomatch"
IsNull(v) == v.t = "null"
IsLex(v) == v.t = "lex"

\* JavaScript truthiness, as the loop condition of ZeroOrMoreRule.exec uses it
Truthy(v) ==
    CASE v.t = "null" -> FALSE
      [] v.t = "num" -> v.v # 0
      [] v.t = "str" -> v.v # <<>>
      [] v.t = "bool" -> v.v
      [] OTHER -> TRUE

Lexeme(text, token, index, line, column, id) ==
    [t |-> "lex", text |-> text, token |-> token, index |-> index,
     line |-> line, column |-> column, id |-> id]

----------------------------------------------------------------------------
(* Token patterns: the regular expressions of the TokenRules.              *)

Digits == {"0", "1", "2", "3", "4", "5", "6", "7", "8", "9"}
Blank == {" ", "\t", "\n", "\r"}

Pattern(kind, cls, lit, cls2, skip) ==
    [kind |-> kind, cls |-> cls, lit |-> lit, cls2 |-> cls2, skip |-> skip]
Literal(s) == Pattern("lit", {}, s, {}, FALSE)

\* The TokenRules of the grammars below; skip is the flag TokenList.skip sets.
Tokens ==
       "WS"     :> Pattern("plus", Blank, <<>>, {}, TRUE)
    @@ "A"      :> Literal(<<"a">>)
    @@ "AB"     :> Literal(<<"a", "b">>)
    @@ "B"      :> Literal(<<"b">>)
    @@ "SP0"    :> Pattern("star", {" "}, <<>>, {}, TRUE)
    @@ "B0"     :> Pattern("star", {"b"}, <<>>, {}, FALSE)
    \* the calculator's own tokens
    @@ "ws"     :> Pattern("plus", Blank, <<>>, {}, TRUE)
    @@ "num"    :> Pattern("num", Digits, <<".">>, Digits \cup {"+"}, FALSE)
    @@ "plus"   :> Literal(<<"+">>)
    @@ "minus"  :> Literal(<<"-">>)
    @@ "star"   :> Literal(<<"*">>)
    @@ "slash"  :> Literal(<<"/">>)
    @@ "lparen" :> Literal(<<"(">>)
    @@ "rparen" :> Literal(<<")">>)

TokenNames == DOMAIN Tokens

\* The TokenLists, in order of addition.
TokenLists ==
       "letters" :> <<"WS", "A", "AB", "B">>
    @@ "onlyA"   :> <<"WS", "A">>
    @@ "skip0"   :> <<"A", "SP0">>
    @@ "empty0"  :> <<"A", "B0">>
    @@ "calc"    :> <<"ws", "num", "plus", "minus", "star", "slash",
                      "lparen", "rparen">>

RECURSIVE RunLen(_, _, _)
\* number of consecutive characters of s from offset i on that are in cls
RunLen(cls, s, i) ==
    IF i < Len(s) /\ s[i + 1] \in cls THEN 1 + RunLen(cls, s, i + 1) ELSE 0

\* s has the literal lit at offset i
HasLit(lit, s, i) ==
    /\ i + Len(lit) <= Len(s)
    /\ \A j \in 1..Len(lit) : s[i + j] = lit[j]

\* regexp.exec with the sticky flag and lastIndex = i: the length of the
\* match of token tk at offset i of s, or -1 when there is none
MatchLen(tk, s, i) ==
    LET p == Tokens[tk] IN
    CASE p.kind = "lit" -> IF HasLit(p.lit, s, i) THEN Len(p.lit) ELSE -1
      [] p.kind = "plus" ->
            LET n == RunLen(p.cls, s, i) IN IF n > 0 THEN n ELSE -1
      [] p.kind = "star" -> RunLen(p.cls, s, i)
      [] p.kind = "num" ->
            LET n == RunLen(p.cls, s, i) IN
            IF n = 0 THEN -1
            ELSE IF /\ HasLit(p.lit, s, i + n)
                    /\ i + n + 1 < Len(s)
                    /\ s[i + n + 2] \in p.cls2
                 THEN n + 2 ELSE n

----------------------------------------------------------------------------
(* The Input class.                                                        *)

\* the field initialisers and the constructor
NewInput(tokens) ==
    [tokens |-> tokens, lexemes |-> <<>>, stack |-> <<>>,
     last_lexeme |-> Null, lex_position |-> -1, last_index |-> 0,
     current_line |-> 1, current_column |-> 1, string |-> <<>>,
     \* history: the number of save, rollback and commit calls
     nsave |-> 0, nrollback |-> 0, ncommit |-> 0]

\* a feed that leaves last_index where the earlier text had taken it
feedKeepingIndex(inp, str) ==
    [inp EXCEPT !.string = str, !.lex_position = -1,
                !.current_line = 1, !.current_column = 1, !.stack = <<>>]

feed(inp, str) ==
    [inp EXCEPT !.string = str, !.lex_position = -1, !.last_index = 0,
                !.current_line = 1, !.current_column = 1, !.stack = <<>>]

\* clone(tokens): a new Input on the same string, at the same place in it
clone(inp, tokens) ==
    [feed(NewInput(tokens), inp.string) EXCEPT
        !.last_index = inp.last_index,
        !.current_line = inp.current_line,
        !.current_column = inp.current_column]

Front(s) == SubSeq(s, 1, Len(s) - 1)
Top(s) == s[Len(s)]

save(inp) ==
    [inp EXCEPT !.stack = Append(@, inp.lex_position), !.nsave = @ + 1]

\* a rollback that also drops the lexemes after the restored position
rollbackTruncating(inp) ==
    IF inp.stack = <<>> THEN [inp EXCEPT !.nrollback = @ + 1]
    ELSE [inp EXCEPT !.lex_position = Top(inp.stack),
                     !.stack = SubSeq(@, 1, Len(@) - 1), !.nrollback = @ + 1,
                     !.lexemes = SubSeq(@, 1, Top(inp.stack) + 1)]

rollback(inp) ==
    IF inp.stack = <<>> THEN [inp EXCEPT !.nrollback = @ + 1]
    ELSE [inp EXCEPT !.lex_position = Top(inp.stack),
                     !.stack = Front(@), !.nrollback = @ + 1]

commit(inp) ==
    IF inp.stack = <<>> THEN [inp EXCEPT !.ncommit = @ + 1]
    ELSE [inp EXCEPT !.stack = Front(@), !.ncommit = @ + 1]

RECURSIVE AdvanceNoReset(_, _, _, _)
\* a createLexeme that does not take the column back to 1 after a newline
AdvanceNoReset(txt, i, line, column) ==
    IF i > Len(txt) THEN [line |-> line, column |-> column]
    ELSE IF txt[i] = "\n" THEN AdvanceNoReset(txt, i + 1, line + 1, column + 1)
    ELSE AdvanceNoReset(txt, i + 1, line, column + 1)

RECURSIVE Advance(_, _, _, _)
\* the loop of createLexeme: the line and column after the text txt
Advance(txt, i, line, column) ==
    IF i > Len(txt) THEN [line |-> line, column |-> column]
    ELSE IF txt[i] = "\n" THEN Advance(txt, i + 1, line + 1, 1)
    ELSE Advance(txt, i + 1, line, column + 1)

\* a createLexeme that gives the lexeme the line and column after its text
createLexemeStampedAfter(inp, n, rule) ==
    LET txt == SubSeq(inp.string, inp.last_index + 1, inp.last_index + n)
        lc == Advance(txt, 1, inp.current_line, inp.current_column)
        lxm == Lexeme(txt, rule, inp.last_index, lc.line, lc.column,
                      Len(inp.lexemes) + 1)
    IN [inp EXCEPT !.current_line = lc.line, !.current_column = lc.column,
                   !.last_index = @ + n, !.lexemes = Append(@, lxm)]

\* a createLexeme that advances last_index by one, not by the match length
createLexemeByOne(inp, n, rule) ==
    LET txt == SubSeq(inp.string, inp.last_index + 1, inp.last_index + n)
        lxm == Lexeme(txt, rule, inp.last_index, inp.current_line,
                      inp.current_column, Len(inp.lexemes) + 1)
        lc == Advance(txt, 1, inp.current_line, inp.current_column)
    IN [inp EXCEPT !.current_line = lc.line, !.current_column = lc.column,
                   !.last_index = @ + 1, !.lexemes = Append(@, lxm)]

\* createLexeme(match, rule), match[0] being the n characters at last_index
createLexeme(inp, n, rule) ==
    LET txt == SubSeq(inp.string, inp.last_index + 1, inp.last_index + n)
        lxm == Lexeme(txt, rule, inp.last_index, inp.current_line,
                      inp.current_column, Len(inp.lexemes) + 1)
        lc == Advance(txt, 1, inp.current_line, inp.current_column)
    IN [inp EXCEPT !.current_line = lc.line, !.current_column = lc.column,
                   !.last_index = @ + n, !.lexemes = Append(@, lxm)]

\* a peek and next that remember the lexeme returned last, not the furthest
FurthestIsLatest(inp, res) == [inp EXCEPT !.last_lexeme = res]

\* a peek and next that remember the first lexeme returned only
FurthestOnlyFirst(inp, res) ==
    IF IsNull(inp.last_lexeme) THEN [inp EXCEPT !.last_lexeme = res] ELSE inp

\* the update of last_lexeme in peek and next
Furthest(inp, res) ==
    IF IsNull(inp.last_lexeme)
       \/ (~IsNull(res) /\ res.index > inp.last_lexeme.index)
    THEN [inp EXCEPT !.last_lexeme = res]
    ELSE inp

----------------------------------------------------------------------------
(* The rules: every Rule object of the grammars, by name.                  *)

Rule(kind, subs, tok, tr, list) ==
    [kind |-> kind, subs |-> subs, tok |-> tok, tr |-> tr, list |-> list]
TokenRule(t) == Rule("token", <<>>, t, "", "")
Sequence(subs) == Rule("seq", subs, "", "", "")
Either(subs) == Rule("either", subs, "", "", "")
ZeroOrMore(r) == Rule("zom", <<r>>, "", "", "")
Optional(r) == Rule("opt", <<r>>, "", "", "")
LookAhead(r) == Rule("la", <<r>>, "", "", "")
Not(r) == Rule("not", <<r>>, "", "", "")
Forward(r) == Rule("fwd", <<r>>, "", "", "")
Transform(r, tr) == Rule("tr", <<r>>, "", tr, "")
Language(r, list) == Rule("lang", <<r>>, "", "", list)

Rules ==
    \* the TokenRules, which are rules too
       [t \in TokenNames |-> TokenRule(t)]
    @@ "any"      :> Rule("any", <<>>, "", "", "")
    @@ "seqAB"    :> Sequence(<<"A", "B">>)
    @@ "seqAAny"  :> Sequence(<<"A", "any">>)
    @@ "seqWSA"   :> Sequence(<<"WS", "A">>)
    @@ "ABorA"    :> Either(<<"seqAB", "A">>)
    @@ "seqAAB"   :> Sequence(<<"A", "A", "B">>)
    @@ "AABorA"   :> Either(<<"seqAAB", "A">>)
    @@ "AorB"     :> Either(<<"A", "B">>)
    @@ "zomA"     :> ZeroOrMore("A")
    @@ "zomAny"   :> ZeroOrMore("any")
    @@ "zomAorB"  :> ZeroOrMore("AorB")
    @@ "optA"     :> Optional("A")
    @@ "optAny"   :> Optional("any")
    @@ "laA"      :> LookAhead("A")
    @@ "laSeqAB"  :> LookAhead("seqAB")
    @@ "notA"     :> Not("A")
    @@ "notSeq"   :> Sequence(<<"notA", "any">>)
    @@ "laSeq"    :> Sequence(<<"laSeqAB", "A">>)
    @@ "zomLaA"   :> ZeroOrMore("laA")
    @@ "zomOptA"  :> ZeroOrMore("optA")
    @@ "zeroA"    :> Transform("A", "zero")
    @@ "zomZero"  :> ZeroOrMore("zeroA")
    @@ "anyOrWS"  :> Either(<<"any", "WS">>)
    @@ "AorWS"    :> Either(<<"A", "WS">>)
    @@ "seqWSB"   :> Sequence(<<"WS", "B">>)
    @@ "seqAWS"   :> Sequence(<<"A", "WS">>)
    @@ "WSBorA"   :> Either(<<"seqWSB", "A">>)
    \* OneOrMore(A)
    @@ "oomA"     :> Transform("zomA", "nonEmpty")
    @@ "oomZero"  :> Transform("zomZero", "nonEmpty")
    \* List(A, B)
    @@ "sepBA"    :> Sequence(<<"B", "A">>)
    @@ "zomBA"    :> ZeroOrMore("sepBA")
    @@ "restsBA"  :> Transform("zomBA", "rests")
    @@ "listSeq"  :> Sequence(<<"A", "restsBA">>)
    @@ "listAB"   :> Transform("listSeq", "concat")
    \* A.text(), WS.as(' ')
    @@ "textA"    :> Transform("A", "text")
    @@ "asWS"     :> Transform("WS", "asSpace")
    @@ "asWSA"    :> Sequence(<<"asWS", "A">>)
    \* a recursive rule: nest = Either(Sequence(A, Forward(() => nest), B), B)
    @@ "fwdNest"  :> Forward("nest")
    @@ "nestSeq"  :> Sequence(<<"A", "fwdNest", "B">>)
    @@ "nest"     :> Either(<<"nestSeq", "B">>)
    \* the calculator
    @@ "fwdAdd"   :> Forward("add")
    @@ "parenSeq" :> Sequence(<<"lparen", "fwdAdd", "rparen">>)
    @@ "parenTf"  :> Transform("parenSeq", "second")
    @@ "numTf"    :> Transform("num", "parseFloat")
    @@ "paren"    :> Either(<<"parenTf", "numTf">>)
    @@ "mulOp"    :> Either(<<"star", "slash">>)
    @@ "mulTail"  :> Sequence(<<"mulOp", "paren">>)
    @@ "mulTails" :> ZeroOrMore("mulTail")
    @@ "multSeq"  :> Sequence(<<"paren", "mulTails">>)
    @@ "mult"     :> Transform("multSeq", "foldMul")
    @@ "addOp"    :> Either(<<"plus", "minus">>)
    @@ "addTail"  :> Sequence(<<"addOp", "mult">>)
    @@ "addTails" :> ZeroOrMore("addTail")
    @@ "addSeq"   :> Sequence(<<"mult", "addTails">>)
    @@ "add"      :> Transform("addSeq", "foldAdd")
    \* the LanguageRules
    @@ "calc"     :> Language("add", "calc")
    @@ "L_A"      :> Language("A", "letters")
    @@ "L_WS"     :> Language("WS", "letters")
    @@ "L_AB"     :> Language("AB", "letters")
    @@ "L_any"    :> Language("any", "letters")
    @@ "L_seqAB"  :> Language("seqAB", "letters")
    @@ "L_seqAAny" :> Language("seqAAny", "letters")
    @@ "L_seqWSA" :> Language("seqWSA", "letters")
    @@ "L_ABorA"  :> Language("ABorA", "letters")
    @@ "L_AABorA" :> Language("AABorA", "letters")
    @@ "L_zomA"   :> Language("zomA", "letters")
    @@ "L_zomAny" :> Language("zomAny", "letters")
    @@ "L_zomAorB" :> Language("zomAorB", "letters")
    @@ "L_optA"   :> Language("optA", "letters")
    @@ "L_optAny" :> Language("optAny", "letters")
    @@ "L_notSeq" :> Language("notSeq", "letters")
    @@ "L_laSeq"  :> Language("laSeq", "letters")
    @@ "L_zomLaA" :> Language("zomLaA", "letters")
    @@ "L_zomOptA" :> Language("zomOptA", "letters")
    @@ "L_zomZero" :> Language("zomZero", "letters")
    @@ "L_oomA"   :> Language("oomA", "letters")
    @@ "L_oomZero" :> Language("oomZero", "letters")
    @@ "L_anyOrWS" :> Language("anyOrWS", "letters")
    @@ "L_AorWS"  :> Language("AorWS", "letters")
    @@ "L_WSBorA" :> Language("WSBorA", "letters")
    @@ "L_seqAWS" :> Language("seqAWS", "letters")
    @@ "L_listAB" :> Language("listAB", "letters")
    @@ "L_textA"  :> Language("textA", "letters")
    @@ "L_asWSA"  :> Language("asWSA", "letters")
    @@ "L_nest"   :> Language("nest", "letters")
    @@ "L_inner"  :> Language("L_A", "letters")
    @@ "N_outer"  :> Language("O_zomA", "letters")
    @@ "O_zomA"   :> Language("zomA", "onlyA")
    @@ "O_seqWSA" :> Language("seqWSA", "onlyA")
    @@ "S_zomA"   :> Language("zomA", "skip0")
    @@ "E_zomA"   :> Language("zomA", "empty0")
    @@ "E_zomAny" :> Language("zomAny", "empty0")

RuleNames == DOMAIN Rules

\* the LanguageRules parse() is called on
Languages ==
    {r \in RuleNames : Rules[r].kind = "lang"}

----------------------------------------------------------------------------
(* The transform functions of the grammars.                                *)

DigitValue(c) ==
    CASE c = "0" -> 0 [] c = "1" -> 1 [] c = "2" -> 2 [] c = "3" -> 3
      [] c = "4" -> 4 [] c = "5" -> 5 [] c = "6" -> 6 [] c = "7" -> 7
      [] c = "8" -> 8 [] c = "9" -> 9

RECURSIVE ParseDigits(_, _, _)
\* parseFloat of a text of digits: the number its leading digits denote
ParseDigits(txt, i, acc) ==
    IF i > Len(txt) \/ txt[i] \notin Digits THEN acc
    ELSE ParseDigits(txt, i + 1, acc * 10 + DigitValue(txt[i]))

RECURSIVE ReduceRight(_, _, _, _)
\* a fold from the right: lhs op (rhs1 op (rhs2 ...))
ReduceRight(pairs, i, acc, sym) ==
    IF i > Len(pairs) THEN acc
    ELSE LET op == pairs[i].v[1]
             rhs == ReduceRight(pairs, i + 1, pairs[i].v[2].v, sym)
             hit == op.text = <<sym>>
         IN IF sym = "*"
            THEN (IF hit THEN acc * rhs ELSE acc \div rhs)
            ELSE (IF hit THEN acc + rhs ELSE acc - rhs)

RECURSIVE Reduce(_, _, _, _)
\* pairs.reduce((lhs, [op, rhs]) => op.text === sym ? f(lhs, rhs) : g(lhs, rhs), first)
\* with f, g = * and / (sym "*") or + and - (sym "+"); / is exact division
Reduce(pairs, i, acc, sym) ==
    IF i > Len(pairs) THEN acc
    ELSE LET op == pairs[i].v[1]
             rhs == pairs[i].v[2].v
             hit == op.text = <<sym>>
             nxt == IF sym = "*"
                    THEN (IF hit THEN acc * rhs ELSE acc \div rhs)
                    ELSE (IF hit THEN acc + rhs ELSE acc - rhs)
         IN Reduce(pairs, i + 1, nxt, sym)

\* a List that keeps the separators and drops the rules' results
restsKeepingSeparators(a) == List([k \in 1..Len(a.v) |-> a.v[k].v[1]])

\* matches => matches.map(([sep, r]) => r) of List
rests(a) == List([k \in 1..Len(a.v) |-> a.v[k].v[2]])

\* ([start, rest]) => [start].concat(rest) of List
concat(a) == List(<<a.v[1]>> \o a.v[2].v)

\* tr(a) of TransformRule, by the name of the function
ApplyTr(tr, a) ==
    CASE tr = "zero" -> Num(0)
      [] tr = "text" -> Str(a.text)
      [] tr = "asSpace" -> IF a.text = <<" ">> THEN a ELSE NOMATCH
      [] tr = "nonEmpty" -> IF Len(a.v) = 0 THEN NOMATCH ELSE a
      [] tr = "rests" -> rests(a)
      [] tr = "concat" -> concat(a)
      [] tr = "second" -> a.v[2]
      [] tr = "parseFloat" -> Num(ParseDigits(a.text, 1, 0))
      [] tr = "foldMul" -> Num(Reduce(a.v[2].v, 1, a.v[1].v, "*"))
      [] tr = "foldAdd" -> Num(Reduce(a.v[2].v, 1, a.v[1].v, "+"))

----------------------------------------------------------------------------
(* The sources parse() is called with.                                     *)

Alphabet == {"a", "b", " ", "\n"}

Enumerated == UNION {[1..k -> Alphabet] : k \in 0..MaxLen}

CalcSources ==
    { <<>>,
      <<"1", " ", "+", " ", "2">>,
      <<"1", "0", " ", "-", " ", "2", " ", "-", " ", "3">>,
      <<" ", "2", "*", "(", "2", "+", "1", ")", " ", "+", "1", "0", "/", "2", " ">>,
      <<"\n", " ", " ", "2", " ", "+", " ", "3", " ", "*", " ", "2", "\n",
        " ", " ", "+", "\n">>,
      <<" ", " ", "5", "2", " ", "!", " ", " ">>,
      <<" ", "\n", " ">>,
      <<"2", " ", "3">>,
      <<"(", "2">>,
      <<"1", "+", "2">>,
      <<" ", "1", " ", "+", "2", "\n">>,
      <<"2", "+", "3", "*", "2">>,
      <<"2", "*", "3", "+", "2">>,
      <<"(", "2", "+", "3", ")", "*", "2">>,
      <<"8", "/", "2", "/", "2">>,
      <<"8", "-", "2", "+", "3">> }

\* longer sources for List(A, B)
ListSources ==
    { <<"a", "b", "a", "b">>,
      <<"a", " ", "b", "a", "\n", "b", "a", "b", "b">>,
      <<"a", "b", "a", "a">> }

SourcesOf(L) ==
    IF Rules[L].list = "calc" THEN CalcSources
    ELSE IF L = "L_listAB" THEN Enumerated \cup ListSources
    ELSE Enumerated

----------------------------------------------------------------------------
(* The call stack.                                                         *)

F == Top(frames)
Kind(f) == Rules[f.rule].kind
Subs(f) == Rules[f.rule].subs

Running(fn, pc) == frames # <<>> /\ F.fn = fn /\ F.pc = pc
Executing(kind, pc) == Running("exec", pc) /\ Kind(F) = kind
Lexing(pc) == frames # <<>> /\ F.fn \in {"peek", "next"} /\ F.pc = pc

\* what the history keeps of an Input
Snapshot(inp) ==
    [lex_position |-> inp.lex_position, stack |-> inp.stack,
     nlexemes |-> Len(inp.lexemes), last_index |-> inp.last_index,
     nsave |-> inp.nsave, nrollback |-> inp.nrollback,
     ncommit |-> inp.ncommit]

\* the activation of r.exec(l); entry and skip0 record the state at the call,
\* calls is history: the calls this activation made that have returned
ExecFrame(r, inp, skp) ==
    [fn |-> "exec", rule |-> r, pc |-> "start", i |-> 0, res |-> <<>>,
     old_skip |-> FALSE, update |-> FALSE, skip |-> FALSE, position |-> 0,
     entry |-> Snapshot(inp), skip0 |-> skp, calls |-> <<>>]

\* a nextLexeme that scans the vector from its start, not from lex_position
LexFrameFromStart(update, skip, inp, skp) ==
    [fn |-> IF update THEN "next" ELSE "peek", rule |-> "", pc |-> "scan",
     i |-> 0, res |-> <<>>, old_skip |-> FALSE, update |-> update,
     skip |-> skip, position |-> -1, entry |-> Snapshot(inp),
     skip0 |-> skp, calls |-> <<>>]

\* the activation of peek(skip) (update false) or next(skip) (update true),
\* at the first line of nextLexeme(update_position, skip)
LexFrame(update, skip, inp, skp) ==
    [fn |-> IF update THEN "next" ELSE "peek", rule |-> "", pc |-> "scan",
     i |-> 0, res |-> <<>>, old_skip |-> FALSE, update |-> update,
     skip |-> skip, position |-> inp.lex_position, entry |-> Snapshot(inp),
     skip0 |-> skp, calls |-> <<>>]

ParseFrame(L, inp, skp) ==
    [fn |-> "parse", rule |-> L, pc |-> "exec", i |-> 0, res |-> <<>>,
     old_skip |-> FALSE, update |-> FALSE, skip |-> FALSE, position |-> 0,
     entry |-> Snapshot(inp), skip0 |-> skp, calls |-> <<>>]

NoCall ==
    [fn |-> "none", rule |-> "", res |-> Null, entry |-> Snapshot(NewInput(<<>>)),
     exit |-> Snapshot(NewInput(<<>>)), skip0 |-> [t \in TokenNames |-> FALSE],
     skip1 |-> [t \in TokenNames |-> FALSE], update |-> FALSE,
     skip |-> FALSE, depth |-> 0, calls |-> <<>>, memo |-> {}]

\* kind: "returned" with value, or the Error thrown with what its message
\* cites; res is history, the res of parse (the top rule's result) if set
\* history: how the parse before this one ended, when the caller kept it
NoPrev == [rule |-> "", kind |-> "none", value |-> Null]

NoOutcome ==
    [kind |-> "none", value |-> Null, line |-> 0, column |-> 0, text |-> <<>>,
     res |-> Null, rule |-> "", prev |-> NoPrev]

\* the running activation goes on as f
Continue(f) == [frames EXCEPT ![Len(frames)] = f]

\* the running activation goes on as f and calls g; inp and skp are the
\* Input and the flags it leaves
Calls(f, g, inp, skp) ==
    /\ frames' = Append(Continue(f), g)
    /\ input' = inp
    /\ skippable' = skp
    /\ UNCHANGED <<ret, last, outcome>>
    /\ UNCHANGED svars

\* history: what the caller keeps of the call that returns res; hits is the
\* number of calls the returning activation made that did not return NOMATCH
Called(res, inp) ==
    [fn |-> F.fn, rule |-> F.rule, res |-> res, skip |-> F.skip,
     from |-> F.entry.lex_position, to |-> inp.lex_position,
     hits |-> Cardinality({j \in 1..Len(F.calls) :
                              ~IsNoMatch(F.calls[j].res)})]

\* history: every exec of this parse that returned, with the rule, the
\* lex_position and the length of the vector at the call, the result and
\* the lex_position at the return
Memo(res, inp) ==
    IF F.fn = "exec"
    THEN last.memo \cup {[rule |-> F.rule, from |-> F.entry.lex_position,
                           nlexemes |-> F.entry.nlexemes, res |-> res,
                           to |-> inp.lex_position]}
    ELSE last.memo

\* the running activation returns res to its caller
Returns(res, inp, skp) ==
    /\ frames' = [Front(frames) EXCEPT
                     ![Len(frames) - 1].calls = Append(@, Called(res, inp))]
    /\ ret' = res
    /\ input' = inp
    /\ skippable' = skp
    /\ last' = [fn |-> F.fn, rule |-> F.rule, res |-> res, entry |-> F.entry,
                exit |-> Snapshot(inp), skip0 |-> F.skip0, skip1 |-> skp,
                update |-> F.update, skip |-> F.skip, depth |-> Len(frames),
                calls |-> F.calls, memo |-> Memo(res, inp)]
    /\ UNCHANGED outcome
    /\ UNCHANGED svars

\* an Error is thrown and nothing catches it: parse() ends with it
Throws(kind, line, column, text, inp) ==
    /\ frames' = <<>>
    /\ input' = inp
    /\ outcome' = [kind |-> kind, value |-> Null, line |-> line,
                   column |-> column, text |-> text,
                   res |-> IF frames[1].pc = "leftover" THEN frames[1].res[1]
                           ELSE Null,
                   rule |-> frames[1].rule, prev |-> outcome.prev]
    /\ UNCHANGED <<ret, last, skippable>>
    /\ UNCHANGED svars

----------------------------------------------------------------------------
(* Input.peek, Input.next and Input.nextLexeme.                            *)

Min(S) == CHOOSE x \in S : \A y \in S : x <= y

\* a first loop that returns the skipped lexemes it finds in the vector
StoredUnfiltered(inp, position, skip, skp) ==
    (position + 1)..(Len(inp.lexemes) - 1)

\* the vector indices the first loop of nextLexeme stops at
Stored(inp, position, skip, skp) ==
    {p \in (position + 1)..(Len(inp.lexemes) - 1) :
        ~(skip /\ skp[inp.lexemes[p + 1].token])}

\* a lexer that takes the token with the longest match, not the first
LongestMatch(inp) ==
    LET hits == {k \in 1..Len(inp.tokens) :
                    MatchLen(inp.tokens[k], inp.string, inp.last_index) >= 0}
        len(k) == MatchLen(inp.tokens[k], inp.string, inp.last_index)
    IN IF hits = {} THEN 0
       ELSE Min({k \in hits : \A j \in hits : len(j) <= len(k)})

\* the for loop of nextLexeme: the place in inp.tokens of the first token
\* whose regexp matches at last_index, 0 when none does
FirstMatch(inp) ==
    LET hits == {k \in 1..Len(inp.tokens) :
                    MatchLen(inp.tokens[k], inp.string, inp.last_index) >= 0}
    IN IF hits = {} THEN 0 ELSE Min(hits)

\* a nextLexeme that moves lex_position whatever update_position is
PositionAlways(inp, update, position) ==
    [inp EXCEPT !.lex_position = position]

\* if (update_position) this.lex_position = position
Position(inp, update, position) ==
    IF update THEN [inp EXCEPT !.lex_position = position] ELSE inp

\* the first loop finds a lexeme that was lexed before and returns it
LexStored ==
    /\ Lexing("scan")
    /\ Stored(input, F.position, F.skip, skippable) # {}
    /\ LET p == Min(Stored(input, F.position, F.skip, skippable))
           l == input.lexemes[p + 1]
       IN /\ Returns(l, Furthest(Position(input, F.update, p), l), skippable)
          /\ seen' = seen \cup {p + 1}
    /\ UNCHANGED attempts

\* the first loop runs out of the vector
LexExhausted ==
    /\ Lexing("scan")
    /\ Stored(input, F.position, F.skip, skippable) = {}
    /\ frames' = Continue([F EXCEPT
            !.pc = "more",
            !.position = IF @ < Len(input.lexemes) - 1
                         THEN Len(input.lexemes) - 1 ELSE @])
    /\ UNCHANGED <<input, skippable, ret, outcome, attempts, seen, last>>
    /\ UNCHANGED svars

\* the second loop ends at the end of the string: null
LexEnd ==
    /\ Lexing("more")
    /\ ~(input.last_index < Len(input.string))
    /\ Returns(Null, Furthest(Position(input, F.update, F.position), Null),
               skippable)
    /\ UNCHANGED <<attempts, seen>>

\* the second loop may go on: the model stops it once the vector holds
\* MaxLexemes lexemes and the next one would be empty
Room(inp) ==
    IF MatchLen(inp.tokens[FirstMatch(inp)], inp.string, inp.last_index) > 0
    THEN TRUE
    ELSE Len(inp.lexemes) < MaxLexemes

Tried == [attempts EXCEPT ![input.last_index] = @ + 1]

\* one turn of the second loop creates a lexeme of a skipped token
LexSkipped ==
    /\ Lexing("more")
    /\ input.last_index < Len(input.string)
    /\ FirstMatch(input) # 0
    /\ Room(input)
    /\ LET t == input.tokens[FirstMatch(input)]
           n == MatchLen(t, input.string, input.last_index)
       IN /\ F.skip /\ skippable[t]
          /\ input' = createLexeme(input, n, t)
          /\ frames' = Continue([F EXCEPT !.position = @ + 1])
    /\ attempts' = Tried
    /\ UNCHANGED <<skippable, ret, outcome, seen, last>>
    /\ UNCHANGED svars

\* one turn of the second loop creates a lexeme and returns it
LexCreated ==
    /\ Lexing("more")
    /\ input.last_index < Len(input.string)
    /\ FirstMatch(input) # 0
    /\ Room(input)
    /\ LET t == input.tokens[FirstMatch(input)]
           n == MatchLen(t, input.string, input.last_index)
           inp1 == createLexeme(input, n, t)
           l == Top(inp1.lexemes)
       IN /\ ~(F.skip /\ skippable[t])
          /\ Returns(l, Furthest(Position(inp1, F.update, F.position + 1), l),
                     skippable)
          /\ seen' = seen \cup {Len(inp1.lexemes)}
    /\ attempts' = Tried

\* no token matches before the end of the string: Illegal input
LexIllegal ==
    /\ Lexing("more")
    /\ input.last_index < Len(input.string)
    /\ FirstMatch(input) = 0
    /\ Throws("illegal", input.current_line, input.current_column,
              <<input.string[input.last_index + 1]>>, input)
    /\ attempts' = Tried
    /\ UNCHANGED seen

----------------------------------------------------------------------------
(* The rules' exec methods.                                                *)

\* a wrapper that forgets to commit
protectRollbackOnly(inp, res) ==
    IF IsNoMatch(res) THEN rollback(inp) ELSE inp

\* a wrapper that commits whatever the wrapped exec returned
protectCommitting(inp, res) == commit(inp)

\* what the wrapper of protectLexerState does once the wrapped exec has
\* returned res; its save() is the first thing the Start steps below do
protectLexerState(inp, res) ==
    IF IsNoMatch(res) THEN rollback(inp) ELSE commit(inp)

Sub(f, k, inp) == ExecFrame(Subs(f)[k], inp, skippable)

\* peek === null || peek.token !== this
NotThisToken(peek, t) == IF IsNull(peek) THEN TRUE ELSE peek.token # t

Unskipped(t) == [skippable EXCEPT ![t] = FALSE]
Reskipped(t, old_skip) == [skippable EXCEPT ![t] = old_skip]

\* a TokenRule.exec that peeks without clearing its skippable flag
TokenPeekSkipping ==
    /\ Executing("token", "start")
    /\ Calls([F EXCEPT !.pc = "peeked", !.old_skip = skippable[F.rule]],
             LexFrame(FALSE, TRUE, input, skippable), input, skippable)
    /\ UNCHANGED <<attempts, seen>>

\* TokenRule.exec up to its call of l.peek()
TokenPeek ==
    /\ Executing("token", "start")
    /\ Calls([F EXCEPT !.pc = "peeked", !.old_skip = skippable[F.rule]],
             LexFrame(FALSE, TRUE, input, Unskipped(F.rule)),
             input, Unskipped(F.rule))
    /\ UNCHANGED <<attempts, seen>>

\* a TokenRule.exec that leaves its flag cleared when it does not match
TokenNoMatchLeaking ==
    /\ Executing("token", "peeked")
    /\ NotThisToken(ret, F.rule)
    /\ Returns(NOMATCH, input, skippable)
    /\ UNCHANGED <<attempts, seen>>

\* TokenRule.exec after l.peek(): the lexeme is not of this token
TokenNoMatch ==
    /\ Executing("token", "peeked")
    /\ NotThisToken(ret, F.rule)
    /\ Returns(NOMATCH, input, Reskipped(F.rule, F.old_skip))
    /\ UNCHANGED <<attempts, seen>>

\* TokenRule.exec after l.peek(): the lexeme is of this token, l.next()
TokenNext ==
    /\ Executing("token", "peeked")
    /\ ~NotThisToken(ret, F.rule)
    /\ Calls([F EXCEPT !.pc = "nexted"],
             LexFrame(TRUE, TRUE, input, Unskipped(F.rule)),
             input, Unskipped(F.rule))
    /\ UNCHANGED <<attempts, seen>>

\* TokenRule.exec after l.next()
TokenDone ==
    /\ Executing("token", "nexted")
    /\ Returns(ret, input, Reskipped(F.rule, F.old_skip))
    /\ UNCHANGED <<attempts, seen>>

\* an Any that looks at the next lexeme without consuming it
AnyNextPeeking ==
    /\ Executing("any", "start")
    /\ Calls([F EXCEPT !.pc = "nexted"],
             LexFrame(FALSE, TRUE, input, skippable), input, skippable)
    /\ UNCHANGED <<attempts, seen>>

AnyNext ==
    /\ Executing("any", "start")
    /\ Calls([F EXCEPT !.pc = "nexted"],
             LexFrame(TRUE, TRUE, input, skippable), input, skippable)
    /\ UNCHANGED <<attempts, seen>>

AnyDone ==
    /\ Executing("any", "nexted")
    /\ Returns(IF IsNull(ret) THEN NOMATCH ELSE ret, input, skippable)
    /\ UNCHANGED <<attempts, seen>>

\* is_toplevel in LanguageRule.exec: the wrapper protectLexerState installs
\* calls fn.call(this, l), so that whatever the caller passed second is
\* dropped and is_toplevel has its default value
is_toplevel(f) == TRUE

\* var final_input = is_toplevel ? input : input.clone(this.tokens); the
\* other rules run their sub-rule on the Input they got
final_input(f, inp) ==
    IF Kind(f) = "lang" /\ ~is_toplevel(f)
    THEN clone(inp, TokenLists[Rules[f.rule].list])
    ELSE inp

\* the exec methods that save, run their one sub-rule and go on when it
\* returns: TransformRule, ZeroOrMoreRule, OptionalRule, LanguageRule,
\* LookAheadRule, NotRule
SaveAndRun ==
    /\ Running("exec", "start")
    /\ Kind(F) \in {"tr", "zom", "opt", "lang", "la", "not"}
    /\ Calls([F EXCEPT !.pc = "sub"], Sub(F, 1, final_input(F, save(input))),
             final_input(F, save(input)), skippable)
    /\ UNCHANGED <<attempts, seen>>

\* a Transform that keeps what its rule consumed when the function signals
\* no-match
TransformDoneKeeping ==
    /\ Executing("tr", "sub")
    /\ LET res == IF ~IsNoMatch(ret) THEN ApplyTr(Rules[F.rule].tr, ret)
                  ELSE NOMATCH
       IN Returns(res, commit(input), skippable)
    /\ UNCHANGED <<attempts, seen>>

TransformDone ==
    /\ Executing("tr", "sub")
    /\ LET res == IF ~IsNoMatch(ret) THEN ApplyTr(Rules[F.rule].tr, ret)
                  ELSE NOMATCH
       IN Returns(res, protectLexerState(input, res), skippable)
    /\ UNCHANGED <<attempts, seen>>

SequenceStart ==
    /\ Executing("seq", "start")
    /\ Len(Subs(F)) > 0
    /\ Calls([F EXCEPT !.pc = "sub", !.i = 0, !.res = <<>>],
             Sub(F, 1, save(input)), save(input), skippable)
    /\ UNCHANGED <<attempts, seen>>

\* a Sequence that keeps what its sub-rules consumed when one of them fails
SequenceFailKeeping ==
    /\ Executing("seq", "sub")
    /\ IsNoMatch(ret)
    /\ Returns(NOMATCH, commit(input), skippable)
    /\ UNCHANGED <<attempts, seen>>

\* a sub-rule of the Sequence returned NOMATCH
SequenceFail ==
    /\ Executing("seq", "sub")
    /\ IsNoMatch(ret)
    /\ Returns(NOMATCH, protectLexerState(input, NOMATCH), skippable)
    /\ UNCHANGED <<attempts, seen>>

\* a sub-rule of the Sequence matched and is not the last one
SequenceNext ==
    /\ Executing("seq", "sub")
    /\ ~IsNoMatch(ret)
    /\ F.i + 1 < Len(Subs(F))
    /\ Calls([F EXCEPT !.i = @ + 1, !.res = Append(@, ret)],
             Sub(F, F.i + 2, input), input, skippable)
    /\ UNCHANGED <<attempts, seen>>

\* the last sub-rule of the Sequence matched
SequenceDone ==
    /\ Executing("seq", "sub")
    /\ ~IsNoMatch(ret)
    /\ ~(F.i + 1 < Len(Subs(F)))
    /\ LET res == List(Append(F.res, ret))
       IN Returns(res, protectLexerState(input, res), skippable)
    /\ UNCHANGED <<attempts, seen>>

EitherStart ==
    /\ Executing("either", "start")
    /\ Len(Subs(F)) > 0
    /\ Calls([F EXCEPT !.pc = "sub", !.i = 0],
             Sub(F, 1, save(input)), save(input), skippable)
    /\ UNCHANGED <<attempts, seen>>

EitherDone ==
    /\ Executing("either", "sub")
    /\ ~IsNoMatch(ret)
    /\ Returns(ret, protectLexerState(input, ret), skippable)
    /\ UNCHANGED <<attempts, seen>>

EitherNext ==
    /\ Executing("either", "sub")
    /\ IsNoMatch(ret)
    /\ F.i + 1 < Len(Subs(F))
    /\ Calls([F EXCEPT !.i = @ + 1], Sub(F, F.i + 2, input), input, skippable)
    /\ UNCHANGED <<attempts, seen>>

EitherFail ==
    /\ Executing("either", "sub")
    /\ IsNoMatch(ret)
    /\ ~(F.i + 1 < Len(Subs(F)))
    /\ Returns(NOMATCH, protectLexerState(input, NOMATCH), skippable)
    /\ UNCHANGED <<attempts, seen>>

\* while (res2 = this.rule.exec(l)) { if (res2 === NOMATCH) break; ... }
ZeroOrMoreGoesOn(res2) == Truthy(res2) /\ ~IsNoMatch(res2)

\* the sub-rule returned something truthy other than NOMATCH: push, again
ZeroOrMoreAgain ==
    /\ Executing("zom", "sub")
    /\ ZeroOrMoreGoesOn(ret)
    /\ Len(F.res) < MaxRes
    /\ Calls([F EXCEPT !.res = Append(@, ret)], Sub(F, 1, input),
             input, skippable)
    /\ UNCHANGED <<attempts, seen>>

ZeroOrMoreDone ==
    /\ Executing("zom", "sub")
    /\ ~ZeroOrMoreGoesOn(ret)
    /\ Returns(List(F.res), protectLexerState(input, List(F.res)), skippable)
    /\ UNCHANGED <<attempts, seen>>

OptionalDone ==
    /\ Executing("opt", "sub")
    /\ LET res == IF IsNoMatch(ret) THEN Null ELSE ret
       IN Returns(res, protectLexerState(input, res), skippable)
    /\ UNCHANGED <<attempts, seen>>

LanguageDone ==
    /\ Executing("lang", "sub")
    /\ Returns(ret, protectLexerState(input, ret), skippable)
    /\ UNCHANGED <<attempts, seen>>

\* a LookAhead that keeps what its rule consumed
LookAheadDoneCommitting ==
    /\ Executing("la", "sub")
    /\ Returns(ret, commit(input), skippable)
    /\ UNCHANGED <<attempts, seen>>

LookAheadDone ==
    /\ Executing("la", "sub")
    /\ Returns(ret, rollback(input), skippable)
    /\ UNCHANGED <<attempts, seen>>

\* a Not that succeeds when its rule matches
NotDoneSame ==
    /\ Executing("not", "sub")
    /\ Returns(IF ~IsNoMatch(ret) THEN Null ELSE NOMATCH, rollback(input),
               skippable)
    /\ UNCHANGED <<attempts, seen>>

NotDone ==
    /\ Executing("not", "sub")
    /\ Returns(IF ~IsNoMatch(ret) THEN NOMATCH ELSE Null, rollback(input),
               skippable)
    /\ UNCHANGED <<attempts, seen>>

\* ForwardRule.exec: rule = this.def(), rule.exec(l)
ForwardRun ==
    /\ Executing("fwd", "start")
    /\ Calls([F EXCEPT !.pc = "sub"], Sub(F, 1, input), input, skippable)
    /\ UNCHANGED <<attempts, seen>>

ForwardDone ==
    /\ Executing("fwd", "sub")
    /\ Returns(ret, input, skippable)
    /\ UNCHANGED <<attempts, seen>>

----------------------------------------------------------------------------
(* LanguageRule.parse.                                                     *)

\* parse(str) on the LanguageRule L, up to its call of this.exec(lexer, true)
Parse(L, str) ==
    /\ frames = <<>>
    /\ outcome.kind = "none"
    /\ LET lexer == feed(NewInput(TokenLists[Rules[L].list]), str)
       IN /\ input' = lexer
          /\ frames' = <<ParseFrame(L, lexer, skippable),
                         ExecFrame(L, lexer, skippable)>>
    /\ attempts' = [k \in 0..Len(str) |-> 0]
    /\ seen' = {}
    /\ ret' = Null
    /\ last' = NoCall
    /\ UNCHANGED <<skippable, outcome>>
    /\ UNCHANGED svars

\* a parse that looks for a leftover lexeme without skipping
ParsePeekUnskipped ==
    /\ Running("parse", "exec")
    /\ Calls([F EXCEPT !.pc = "leftover", !.res = <<ret>>],
             LexFrame(FALSE, FALSE, input, skippable), input, skippable)
    /\ UNCHANGED <<attempts, seen>>

\* parse after this.exec: leftover = lexer.peek()
ParsePeek ==
    /\ Running("parse", "exec")
    /\ Calls([F EXCEPT !.pc = "leftover", !.res = <<ret>>],
             LexFrame(FALSE, TRUE, input, skippable), input, skippable)
    /\ UNCHANGED <<attempts, seen>>

\* parse after lexer.peek(): a lexeme is left over
ParseUnexpected ==
    /\ Running("parse", "leftover")
    /\ ~IsNull(ret)
    /\ LET lxm == IF ~IsNull(input.last_lexeme) THEN input.last_lexeme ELSE ret
       IN Throws("unexpected", lxm.line, lxm.column, lxm.text, input)
    /\ UNCHANGED <<attempts, seen>>

\* parse after lexer.peek(): nothing is left over, return res
ParseReturn ==
    /\ Running("parse", "leftover")
    /\ IsNull(ret)
    /\ frames' = <<>>
    /\ outcome' = [NoOutcome EXCEPT !.kind = "returned", !.value = F.res[1],
                                    !.res = F.res[1], !.rule = F.rule,
                                    !.prev = outcome.prev]
    /\ UNCHANGED <<input, skippable, ret, last, attempts, seen>>
    /\ UNCHANGED svars

\* the caller of parse has its result or its error; the Input is dropped
Drop ==
    /\ frames = <<>>
    /\ outcome.kind # "none"
    /\ input' = NewInput(<<>>)
    /\ outcome' = NoOutcome
    /\ ret' = Null
    /\ last' = NoCall
    /\ attempts' = <<>>
    /\ seen' = {}
    /\ UNCHANGED <<skippable, frames>>
    /\ UNCHANGED svars

----------------------------------------------------------------------------
(* The earlier rules of the library, src/src/rule.ts from its line 377 on  *)
(* and part_005: they run on a TokenStream, an array of lexemes that was   *)
(* lexed beforehand.  rule.ts signals a failure with NO_MATCH, part_005    *)
(* with null.  Modelled are the TokenStream, protectStreamState, and the   *)
(* rules TokenRule, MatchRule, StringRule, ReRule, TransformRule,          *)
(* EitherRule and ZeroOrMoreRule.                                          *)

\* longest array of a TokenStream
MaxStream == 3

NO_MATCH == [t |-> "no_match"]
IsNO_MATCH(v) == v.t = "no_match"

\* the Lexeme of rule.ts: its text and the TokenRule it is of
StreamLexeme(text, token) == [t |-> "lex", text |-> text, token |-> token]

\* the Token of tokenizer.ts, which the TokenStream of part_005 holds
StreamToken(string) == [t |-> "tok", string |-> string]

\* String(x) of a lexeme or a token: toString() gives its text
toString(x) == IF x.t = "lex" THEN x.text ELSE x.string

\* the arrays of at most MaxStream elements of E
Arrays(E) == UNION {[1..n -> E] : n \in 0..MaxStream}

\* new TokenStream(arr, skip); skip is the regular expression /^\s+$/
TokenStream(arr) == [arr |-> arr, position |-> 0, stack |-> <<>>]

streamSave(s) == [s EXCEPT !.stack = Append(@, s.position)]

streamRollback(s) ==
    IF s.stack = <<>> THEN s
    ELSE [s EXCEPT !.position = Top(s.stack), !.stack = Front(@)]

streamCommit(s) ==
    IF s.stack = <<>> THEN s ELSE [s EXCEPT !.stack = Front(@)]

\* peek(), and what next() returns
streamPeek(s) ==
    IF s.position < Len(s.arr) THEN s.arr[s.position + 1] ELSE Null

\* the stream after next()
streamNext(s) ==
    IF s.position < Len(s.arr) THEN [s EXCEPT !.position = @ + 1] ELSE s

RECURSIVE streamSkip(_)
\* the stream after Rule.skip(s): next() as long as peek() is a lexeme and
\* skip_rule.test(its text), that is, as long as its text is blanks
streamSkip(s) ==
    IF IsNull(streamPeek(s)) THEN s
    ELSE IF \A i \in 1..Len(toString(streamPeek(s))) :
                toString(streamPeek(s))[i] \in Blank
         THEN streamSkip(streamNext(s))
         ELSE s

StreamRule(kind, subs, lit, tr) ==
    [kind |-> kind, subs |-> subs, lit |-> lit, tr |-> tr]

\* the rules that are run on a TokenStream, by name
StreamRules ==
    \* rule.ts: Token('+'), Token('-')
       "T_plus"    :> StreamRule("token", <<>>, <<>>, "")
    @@ "T_minus"   :> StreamRule("token", <<>>, <<>>, "")
    \* Match('+'), Match('-')
    @@ "M_plus"    :> StreamRule("match", <<>>, <<"+">>, "")
    @@ "M_minus"   :> StreamRule("match", <<>>, <<"-">>, "")
    \* Str('+') = new MatchRule('+').tf(tk => tk.text), Str('-')
    @@ "S_plus"    :> StreamRule("tr", <<"M_plus">>, <<>>, "text")
    @@ "S_minus"   :> StreamRule("tr", <<"M_minus">>, <<>>, "text")
    \* Either(Str('+'), Str('-')), Either(Token('+'), Token('-'))
    @@ "S_either"  :> StreamRule("either", <<"S_plus", "S_minus">>, <<>>, "")
    @@ "T_either"  :> StreamRule("either", <<"T_plus", "T_minus">>, <<>>, "")
    \* ZeroOrMore(Token('+')), ZeroOrMore(Token('+').tf(() => 0))
    @@ "T_zom"     :> StreamRule("zom", <<"T_plus">>, <<>>, "")
    @@ "T_zero"    :> StreamRule("tr", <<"T_plus">>, <<>>, "zero")
    @@ "Z_zom"     :> StreamRule("zom", <<"T_zero">>, <<>>, "")
    \* part_005: Str('+'), Str('-'), Re(/^\+$/), Re(/^-$/)
    @@ "Str5_plus"  :> StreamRule("string5", <<>>, <<"+">>, "")
    @@ "Str5_minus" :> StreamRule("string5", <<>>, <<"-">>, "")
    @@ "Re5_plus"   :> StreamRule("re5", <<>>, <<"+">>, "")
    @@ "Re5_minus"  :> StreamRule("re5", <<>>, <<"-">>, "")
    \* part_005: Either('+', '-'), Either(/^\+$/, /^-$/)
    @@ "Str5_either" :> StreamRule("either5", <<"Str5_plus", "Str5_minus">>,
                                   <<>>, "")
    @@ "Re5_either"  :> StreamRule("either5", <<"Re5_plus", "Re5_minus">>,
                                   <<>>, "")

\* the kinds of rule of part_005
Part005 == {"string5", "re5", "either5"}

\* the arrays the rule r is run on: lexemes for rule.ts, tokens for part_005
ArraysOf(r) ==
    IF StreamRules[r].kind \in Part005
    THEN Arrays({StreamToken(<<"+">>), StreamToken(<<"-">>),
                 StreamToken(<<" ">>)})
    ELSE Arrays({StreamLexeme(<<"+">>, "T_plus"),
                 StreamLexeme(<<"-">>, "T_minus"),
                 StreamLexeme(<<" ">>, "T_ws")})

SF == Top(sframes)
StreamKind(f) == StreamRules[f.rule].kind
StreamSubs(f) == StreamRules[f.rule].subs

StreamExecuting(kinds, pc) ==
    sframes # <<>> /\ SF.pc = pc /\ StreamKind(SF) \in kinds

\* the activation of r.exec(s); entry is history, the position at the call
StreamFrame(r, s) ==
    [rule |-> r, pc |-> "start", i |-> 0, res |-> <<>>, entry |-> s.position]

NoStreamCall == [rule |-> "", res |-> Null, from |-> 0, to |-> 0]

\* the parser of index.ts, which the rules on a TokenStream leave alone
ivars == <<input, skippable, frames, ret, outcome, attempts, seen, last>>

\* the running activation goes on as f and calls r.exec(s)
StreamCalls(f, r, s) ==
    /\ sframes' = Append([sframes EXCEPT ![Len(sframes)] = f],
                         StreamFrame(r, s))
    /\ stream' = s
    /\ UNCHANGED <<sret, slast>>
    /\ UNCHANGED ivars

\* the running activation returns res and leaves the stream as s
StreamReturns(res, s) ==
    /\ sframes' = Front(sframes)
    /\ sret' = res
    /\ stream' = s
    /\ slast' = [rule |-> SF.rule, res |-> res, from |-> SF.entry,
                 to |-> s.position]
    /\ UNCHANGED ivars

\* the failure value of a rule: NO_MATCH in rule.ts, null in part_005
Failure(kind) == IF kind \in Part005 THEN Null ELSE NO_MATCH

\* what the wrapper of protectStreamState does once the wrapped exec has
\* returned res (res === NO_MATCH in rule.ts, res == null in part_005); its
\* save() is the first thing StreamSaveAndRun does
protectStreamState(kind, s, res) ==
    IF res.t = Failure(kind).t THEN streamRollback(s) ELSE streamCommit(s)

\* rule.ts: tk => tk.text and () => 0
StreamApplyTr(tr, a) ==
    CASE tr = "text" -> Str(a.text)
      [] tr = "zero" -> Num(0)

\* m === next in StringRule.exec: a string is identical to a string only
StrictEquals(m, next) == next.t = "str" /\ next.v = m

RECURSIVE Flat(_, _)
\* [].concat(...res): the arrays among res are spread, the rest is kept
Flat(res, i) ==
    IF i > Len(res) THEN <<>>
    ELSE (IF res[i].t = "list" THEN res[i].v ELSE <<res[i]>>)
         \o Flat(res, i + 1)

\* a caller constructs a TokenStream on arr and calls r.exec(s)
StreamExec(r, arr) ==
    /\ sframes = <<>>
    /\ slast = NoStreamCall
    /\ stream' = TokenStream(arr)
    /\ sframes' = <<StreamFrame(r, TokenStream(arr))>>
    /\ UNCHANGED <<sret, slast>>
    /\ UNCHANGED ivars

\* TokenRule.exec of rule.ts
StreamTokenExec ==
    /\ StreamExecuting({"token"}, "start")
    /\ LET next == streamPeek(stream)
           miss == IF IsNull(next) THEN TRUE ELSE next.token # SF.rule
       IN IF miss THEN StreamReturns(NO_MATCH, stream)
          ELSE StreamReturns(next, streamNext(stream))

\* MatchRule.exec of rule.ts: s.next(), then the comparison with the text
StreamMatchExec ==
    /\ StreamExecuting({"match"}, "start")
    /\ LET next == streamPeek(stream)
           hit == IF IsNull(next) THEN FALSE
                  ELSE next.text = StreamRules[SF.rule].lit
       IN StreamReturns(IF hit THEN next ELSE NO_MATCH, streamNext(stream))

\* StringRule.exec of part_005: s.next(), then m === next for its one string
StreamStringExec ==
    /\ StreamExecuting({"string5"}, "start")
    /\ LET next == streamPeek(stream)
       IN StreamReturns(IF StrictEquals(StreamRules[SF.rule].lit, next)
                        THEN List(<<next>>) ELSE Null,
                        streamNext(stream))

\* ReRule.exec of part_005: s.next(), then this.re.test(next)
StreamReExec ==
    /\ StreamExecuting({"re5"}, "start")
    /\ LET next == streamPeek(stream)
           hit == IF IsNull(next) THEN FALSE
                  ELSE toString(next) = StreamRules[SF.rule].lit
       IN StreamReturns(IF hit THEN List(<<next>>) ELSE Null,
                        streamNext(stream))

\* TransformRule.exec of rule.ts: this.baserule.exec(s)
StreamTransformRun ==
    /\ StreamExecuting({"tr"}, "start")
    /\ StreamCalls([SF EXCEPT !.pc = "sub"], StreamSubs(SF)[1], stream)

StreamTransformDone ==
    /\ StreamExecuting({"tr"}, "sub")
    /\ StreamReturns(IF ~IsNO_MATCH(sret)
                     THEN StreamApplyTr(StreamRules[SF.rule].tr, sret)
                     ELSE NO_MATCH,
                     stream)

\* the exec methods whose wrapper saves, EitherRule and ZeroOrMoreRule, up
\* to the call of their first sub-rule
StreamSaveAndRun ==
    /\ StreamExecuting({"either", "either5", "zom"}, "start")
    /\ StreamCalls([SF EXCEPT !.pc = "sub"], StreamSubs(SF)[1],
                   streamSave(stream))

\* res !== NO_MATCH in EitherRule.exec of rule.ts, res in that of part_005
EitherTakes(kind, res) ==
    IF kind = "either5" THEN Truthy(res) ELSE ~IsNO_MATCH(res)

\* EitherRule.exec: an alternative matched
StreamEitherDone ==
    /\ StreamExecuting({"either", "either5"}, "sub")
    /\ EitherTakes(StreamKind(SF), sret)
    /\ StreamReturns(sret, protectStreamState(StreamKind(SF), stream, sret))

\* EitherRule.exec: an alternative failed and is not the last one
StreamEitherNext ==
    /\ StreamExecuting({"either", "either5"}, "sub")
    /\ ~EitherTakes(StreamKind(SF), sret)
    /\ SF.i + 1 < Len(StreamSubs(SF))
    /\ StreamCalls([SF EXCEPT !.i = @ + 1], StreamSubs(SF)[SF.i + 2], stream)

\* EitherRule.exec: the last alternative failed
StreamEitherFail ==
    /\ StreamExecuting({"either", "either5"}, "sub")
    /\ ~EitherTakes(StreamKind(SF), sret)
    /\ ~(SF.i + 1 < Len(StreamSubs(SF)))
    /\ StreamReturns(Failure(StreamKind(SF)),
                     protectStreamState(StreamKind(SF), stream,
                                        Failure(StreamKind(SF))))

\* ZeroOrMoreRule.exec of rule.ts: while (res2 = this.rule.exec(s)) with a
\* truthy res2: push, skip, again
StreamZeroOrMoreAgain ==
    /\ StreamExecuting({"zom"}, "sub")
    /\ Truthy(sret)
    /\ Len(SF.res) < MaxRes
    /\ StreamCalls([SF EXCEPT !.res = Append(@, sret)], StreamSubs(SF)[1],
                   streamSkip(stream))

\* ZeroOrMoreRule.exec of rule.ts: res2 is falsy, return [].concat(...res)
StreamZeroOrMoreDone ==
    /\ StreamExecuting({"zom"}, "sub")
    /\ ~Truthy(sret)
    /\ LET res == List(Flat(SF.res, 1))
       IN StreamReturns(res, protectStreamState("zom", stream, res))

----------------------------------------------------------------------------

Init ==
    /\ input = NewInput(<<>>)
    /\ skippable = [t \in TokenNames |-> Tokens[t].skip]
    /\ frames = <<>>
    /\ ret = Null
    /\ outcome = NoOutcome
    /\ attempts = <<>>
    /\ seen = {}
    /\ last = NoCall
    /\ stream = TokenStream(<<>>)
    /\ sframes = <<>>
    /\ sret = Null
    /\ slast = NoStreamCall

\* the steps of a running parse
Run ==
    \/ ParsePeek \/ ParseUnexpected \/ ParseReturn
    \/ LexStored \/ LexExhausted \/ LexEnd \/ LexSkipped \/ LexCreated
    \/ LexIllegal
    \/ TokenPeek \/ TokenNoMatch \/ TokenNext \/ TokenDone
    \/ AnyNext \/ AnyDone
    \/ SaveAndRun \/ TransformDone
    \/ SequenceStart \/ SequenceFail \/ SequenceNext \/ SequenceDone
    \/ EitherStart \/ EitherDone \/ EitherNext \/ EitherFail
    \/ ZeroOrMoreAgain \/ ZeroOrMoreDone
    \/ OptionalDone \/ LanguageDone \/ LookAheadDone \/ NotDone
    \/ ForwardRun \/ ForwardDone

Next ==
    \/ \E L \in Languages : \E str \in SourcesOf(L) : Parse(L, str)
    \/ Drop
    \/ Run

Spec == Init /\ [][Next]_vars

----------------------------------------------------------------------------
(* A caller that parses the empty source with a LanguageRule, keeps how    *)
(* that ended, and then parses another source with the same rule.          *)

ParseEmpty(L) ==
    /\ outcome.prev.kind = "none"
    /\ Parse(L, <<>>)

\* the caller keeps the result or the error of the first parse
Keep ==
    /\ frames = <<>>
    /\ outcome.kind # "none"
    /\ outcome.prev.kind = "none"
    /\ input' = NewInput(<<>>)
    /\ outcome' = [NoOutcome EXCEPT
                      !.prev = [rule |-> outcome.rule, kind |-> outcome.kind,
                                value |-> outcome.value]]
    /\ ret' = Null
    /\ last' = NoCall
    /\ attempts' = <<>>
    /\ seen' = {}
    /\ UNCHANGED <<skippable, frames>>
    /\ UNCHANGED svars

ParseAgain(L, str) ==
    /\ outcome.prev.rule = L
    /\ Parse(L, str)

DropBoth ==
    /\ outcome.prev.kind # "none"
    /\ Drop

NextPair ==
    \/ \E L \in Languages : ParseEmpty(L)
    \/ \E L \in Languages : \E str \in SourcesOf(L) : ParseAgain(L, str)
    \/ Keep
    \/ DropBoth
    \/ Run

SpecPair == Init /\ [][NextPair]_vars

----------------------------------------------------------------------------
(* A caller that uses an Input directly: it constructs one and feeds it,   *)
(* calls peek, next, save, rollback and commit, and may feed it again.     *)

\* the sources such a caller feeds a new Input with
ApiSources ==
    { <<>>, <<" ">>, <<"a", " ", "b">>, <<" ", "a", " ">>,
      <<"\n", "\n", "a">>, <<"a", "a", "b", "a">>,
      <<"b", " ", " ", "a", "\n", "b">> }

\* the sources it feeds an Input it has used
FeedSources == { <<"b">>, <<" ", "a", "b">> }

ApiLists == {"letters", "onlyA", "skip0", "empty0"}

\* the caller between two calls; i counts the feeds after the first one and
\* calls holds the last call of peek or next, if it was the last call made
CallerFrame(n, calls, inp, skp) ==
    [ParseFrame("", inp, skp) EXCEPT !.fn = "caller", !.pc = "idle", !.i = n,
                                     !.calls = calls]

Idle == Running("caller", "idle")

\* new Input(tokens).feed(str)
Construct(list, str) ==
    /\ frames = <<>>
    /\ outcome.kind = "none"
    /\ LET lexer == feed(NewInput(TokenLists[list]), str)
       IN /\ input' = lexer
          /\ frames' = <<CallerFrame(0, <<>>, lexer, skippable)>>
    /\ attempts' = [k \in 0..Len(str) |-> 0]
    /\ seen' = {}
    /\ ret' = Null
    /\ last' = NoCall
    /\ UNCHANGED <<skippable, outcome>>
    /\ UNCHANGED svars

\* input.feed(str) on the Input in use
Feed(str) ==
    /\ Idle
    /\ F.i < MaxFeeds
    /\ input' = feed(input, str)
    /\ frames' = <<CallerFrame(F.i + 1, <<>>, input', skippable)>>
    /\ attempts' = [k \in 0..Len(str) |-> 0]
    /\ seen' = {}
    /\ ret' = Null
    /\ last' = [NoCall EXCEPT !.fn = "feed"]
    /\ UNCHANGED <<skippable, outcome>>
    /\ UNCHANGED svars

\* input.peek(skip)
CallPeek(skip) ==
    /\ Idle
    /\ Calls([F EXCEPT !.calls = <<>>],
             LexFrame(FALSE, skip, input, skippable), input, skippable)
    /\ seen' = {}
    /\ UNCHANGED attempts

\* input.next(skip)
CallNext(skip) ==
    /\ Idle
    /\ Calls([F EXCEPT !.calls = <<>>],
             LexFrame(TRUE, skip, input, skippable), input, skippable)
    /\ seen' = {}
    /\ UNCHANGED attempts

\* input.save(), input.rollback() or input.commit()
CallStack(fn, inp) ==
    /\ Idle
    /\ input' = inp
    /\ frames' = Continue([F EXCEPT !.calls = <<>>])
    /\ last' = [NoCall EXCEPT !.fn = fn]
    /\ UNCHANGED <<skippable, ret, outcome, attempts, seen>>
    /\ UNCHANGED svars

CallSave ==
    /\ input.nsave < MaxSaves
    /\ CallStack("save", save(input))

CallRollback ==
    /\ input.nrollback + input.ncommit < MaxSaves
    /\ CallStack("rollback", rollback(input))

CallCommit ==
    /\ input.nrollback + input.ncommit < MaxSaves
    /\ CallStack("commit", commit(input))

NextInput ==
    \/ \E list \in ApiLists : \E str \in ApiSources : Construct(list, str)
    \/ \E str \in FeedSources : Feed(str)
    \/ \E skip \in BOOLEAN : CallPeek(skip)
    \/ \E skip \in BOOLEAN : CallNext(skip)
    \/ CallSave \/ CallRollback \/ CallCommit
    \/ LexStored \/ LexExhausted \/ LexEnd \/ LexSkipped \/ LexCreated
    \/ LexIllegal
    \/ Drop

SpecInput == Init /\ [][NextInput]_vars

----------------------------------------------------------------------------
(* A caller that runs a rule of rule.ts or part_005 on a TokenStream.      *)

NextStream ==
    \/ \E r \in DOMAIN StreamRules : \E arr \in ArraysOf(r) :
          StreamExec(r, arr)
    \/ StreamTokenExec \/ StreamMatchExec
    \/ StreamStringExec \/ StreamReExec
    \/ StreamTransformRun \/ StreamTransformDone
    \/ StreamSaveAndRun
    \/ StreamEitherDone \/ StreamEitherNext \/ StreamEitherFail
    \/ StreamZeroOrMoreAgain \/ StreamZeroOrMoreDone

SpecStream == Init /\ [][NextStream]_vars

----------------------------------------------------------------------------
(* Properties.                                                             *)

Finished == frames = <<>> /\ outcome.kind # "none"

\* the line and the column of offset k of the source s, counted from 1
LineAt(s, k) == 1 + Cardinality({i \in 1..k : s[i] = "\n"})
ColumnAt(s, k) ==
    LET nls == {i \in 1..k : s[i] = "\n"}
    IN 1 + k - (IF nls = {} THEN 0 ELSE CHOOSE i \in nls : \A j \in nls : j <= i)

\* the error cites the lexeme l
Cites(l) ==
    outcome.line = l.line /\ outcome.column = l.column /\ outcome.text = l.text

\* C1: whenever parse ends after the top rule returned no-match, it ends by
\* raising an error that cites the furthest lexeme (1:1 on the empty source);
\* it never returns.
C1_NoMatchRaises ==
    (outcome.kind \in {"returned", "unexpected"} /\ IsNoMatch(outcome.res)) =>
        /\ outcome.kind = "unexpected"
        /\ IF input.string = <<>>
           THEN outcome.line = 1 /\ outcome.column = 1
           ELSE ~IsNull(input.last_lexeme) /\ Cites(input.last_lexeme)

\* a lexeme of greatest index among those peek and next returned
FurthestSeen ==
    input.lexemes[CHOOSE i \in seen : \A j \in seen :
                      input.lexemes[j].index <= input.lexemes[i].index]

\* the non-skippable lexemes the vector holds after lex_position
Remaining ==
    {p \in (input.lex_position + 1)..(Len(input.lexemes) - 1) :
        ~skippable[input.lexemes[p + 1].token]}

\* C2: when the top rule matched, parse either raises the unexpected-input
\* error, which cites the lexeme of greatest index that peek or next ever
\* returned and is raised only when a non-skippable lexeme is left after
\* lex_position, or returns the top rule's result, only when the whole source
\* is lexed and no non-skippable lexeme is left after lex_position.
C2_UnexpectedCitesFurthest ==
    (Finished /\ ~IsNoMatch(outcome.res)) =>
        /\ outcome.kind = "unexpected" =>
              /\ seen # {}
              /\ Cites(FurthestSeen)
              /\ Remaining # {}
        /\ outcome.kind = "returned" =>
              /\ outcome.value = outcome.res
              /\ Remaining = {}
              /\ input.last_index = Len(input.string)

\* the top rule matched one lexeme, an attempt that read two lexemes further
\* was rolled back, and the error cites the furthest of them, not the leftover
C2_Witness ==
    /\ outcome.kind = "unexpected"
    /\ IsLex(outcome.res)
    /\ input.lex_position = 0
    /\ Len(input.lexemes) = 3
    /\ Cites(input.lexemes[3])

NoTokenAt(k) ==
    \A j \in 1..Len(input.tokens) :
        MatchLen(input.tokens[j], input.string, k) < 0

\* C3: tokenisation is tried at an offset before the end of the source where
\* no token of the list matches exactly when the Illegal input error is
\* raised, and the error carries the line and the column of that offset and
\* its character; the calculator reports the "!" of "  52 !  " at 1:6.
C3_IllegalInputPosition ==
    /\ \A k \in DOMAIN attempts :
          (attempts[k] > 0 /\ k < Len(input.string) /\ NoTokenAt(k)) =>
              outcome.kind = "illegal"
    /\ outcome.kind = "illegal" =>
          LET k == input.last_index IN
          /\ k < Len(input.string)
          /\ NoTokenAt(k)
          /\ attempts[k] > 0
          /\ outcome.line = LineAt(input.string, k)
          /\ outcome.column = ColumnAt(input.string, k)
          /\ outcome.text = <<input.string[k + 1]>>
    /\ (Finished /\ input.string = <<" ", " ", "5", "2", " ", "!", " ", " ">>
        /\ input.tokens = TokenLists["calc"]) =>
          /\ outcome.kind = "illegal"
          /\ outcome.line = 1 /\ outcome.column = 6
          /\ outcome.text = <<"!">>

\* an illegal character in the second column of the second line
C3_Witness ==
    /\ outcome.kind = "illegal"
    /\ outcome.line = 2 /\ outcome.column = 2
    /\ input.string[input.last_index + 1] = "b"

\* C4: an exec that returns no-match returns with lex_position at its value
\* on entry.
C4_NoMatchRestoresPosition ==
    (last.fn = "exec" /\ IsNoMatch(last.res)) =>
        last.exit.lex_position = last.entry.lex_position

\* C5: an exec that returns has made as many save calls as commit and
\* rollback calls together, and leaves the save stack as it found it.
C5_SavesAreBalanced ==
    last.fn = "exec" =>
        /\ last.exit.nsave - last.entry.nsave =
              (last.exit.ncommit - last.entry.ncommit)
              + (last.exit.nrollback - last.entry.nrollback)
        /\ last.exit.stack = last.entry.stack

\* an exec that returned with a non-empty stack after several saves, of which
\* some were committed and some rolled back
C5_Witness ==
    /\ last.fn = "exec"
    /\ last.entry.stack # <<>>
    /\ last.exit.nsave - last.entry.nsave >= 3
    /\ last.exit.ncommit > last.entry.ncommit
    /\ last.exit.nrollback > last.entry.nrollback

IsPrefix(a, b) == Len(a) <= Len(b) /\ SubSeq(b, 1, Len(a)) = a

\* a step in which rollback() runs
RollbackStep == input'.nrollback = input.nrollback + 1

\* a step in which peek or next returns a lexeme
LexemeReturned ==
    /\ frames # <<>>
    /\ F.fn \in {"peek", "next"}
    /\ Len(frames') = Len(frames) - 1
    /\ IsLex(ret')

\* C6: rollback changes lex_position, to the value the matching save pushed,
\* and pops the stack, and changes nothing else of the Input; no step of a
\* parse shortens the lexeme vector or changes a lexeme in it; peek and next
\* return a lexeme of the vector, and lex nothing when the vector holds a
\* lexeme to return after the position they start from.
C6_RollbackKeepsLexemes ==
    [][/\ RollbackStep =>
            /\ input.stack # <<>>
            /\ input' = [input EXCEPT !.lex_position = Top(input.stack),
                                      !.stack = Front(input.stack),
                                      !.nrollback = @ + 1]
            /\ input'.lex_position = F.entry.lex_position
       /\ frames # <<>> => IsPrefix(input.lexemes, input'.lexemes)
       /\ LexemeReturned =>
            /\ ret' = input'.lexemes[ret'.id]
            /\ LET old == Stored(input, F.entry.lex_position, F.skip,
                                 skippable)
               IN old # {} => /\ input'.lexemes = input.lexemes
                              /\ ret'.id = Min(old) + 1
      ]_vars

\* after a rollback, next returned a lexeme that was in the vector, before
\* the end of the vector, and lexed nothing
C6_Witness ==
    /\ last.fn = "next"
    /\ IsLex(last.res)
    /\ last.entry.nrollback > 0
    /\ last.res.id < last.entry.nlexemes
    /\ last.exit.nlexemes = last.entry.nlexemes

\* C7: during a parse tokenisation is tried at most once at each offset of
\* the source, and no two lexemes of the vector start at the same offset.
C7_TokenisedOnce ==
    /\ \A k \in DOMAIN attempts : attempts[k] <= 1
    /\ \A i, j \in 1..Len(input.lexemes) :
          i # j => input.lexemes[i].index # input.lexemes[j].index

RECURSIVE Concat(_, _)
\* the texts of the lexemes i.. of the vector, one after the other
Concat(lexemes, i) ==
    IF i > Len(lexemes) THEN <<>>
    ELSE lexemes[i].text \o Concat(lexemes, i + 1)

\* C8: the lexeme vector tiles source[0..last_index): the first lexeme is at
\* offset 0, every lexeme ends where the next one starts and the last one at
\* last_index, the offsets never decrease along the vector, and the texts
\* one after the other are that prefix of the source.
C8_LexemesTile ==
    LET ls == input.lexemes
        n == Len(ls)
    IN /\ n = 0 => input.last_index = 0
       /\ n > 0 => ls[1].index = 0
       /\ n > 0 => ls[n].index + Len(ls[n].text) = input.last_index
       /\ \A i \in 1..(n - 1) :
             /\ ls[i].index + Len(ls[i].text) = ls[i + 1].index
             /\ ls[i].index <= ls[i + 1].index
       /\ input.last_index <= Len(input.string)
       /\ Concat(ls, 1) = SubSeq(input.string, 1, input.last_index)

\* a vector of three lexemes, one of them longer than a character
C8_Witness ==
    /\ Len(input.lexemes) >= 3
    /\ \E i \in 1..Len(input.lexemes) : Len(input.lexemes[i].text) >= 2

\* the places of token t in the token list of the Input
Places(t) == {k \in 1..Len(input.tokens) : input.tokens[k] = t}

\* C9: every lexeme is of a token of the list, its text is what that token
\* matches at the lexeme's offset, and no token added to the list before it
\* matches there, whatever the later ones match.
C9_FirstTokenWins ==
    \A i \in 1..Len(input.lexemes) :
        LET l == input.lexemes[i] IN
        /\ Places(l.token) # {}
        /\ MatchLen(l.token, input.string, l.index) = Len(l.text)
        /\ l.text = SubSeq(input.string, l.index + 1, l.index + Len(l.text))
        /\ \A j \in 1..(Min(Places(l.token)) - 1) :
              MatchLen(input.tokens[j], input.string, l.index) < 0

\* a lexeme where a token later in the list matches a longer text
C9_Witness ==
    \E i \in 1..Len(input.lexemes) :
        LET l == input.lexemes[i] IN
        \E j \in 1..Len(input.tokens) :
            /\ j > Min(Places(l.token))
            /\ MatchLen(input.tokens[j], input.string, l.index) > Len(l.text)

\* C10: a token whose pattern matches the empty string at last_index is
\* taken not to match there: no lexeme of the vector has an empty text, so
\* that every lexeme created has moved last_index forward.
C10_NoEmptyLexeme ==
    \A i \in 1..Len(input.lexemes) : Len(input.lexemes[i].text) > 0

\* the calls of the activation f that left lex_position where they found it
Stalled(f) == {j \in 1..Len(f.calls) : f.calls[j].to = f.calls[j].from}

\* C11: a ZeroOrMore stops as soon as an iteration of its rule leaves
\* lex_position unchanged: of the iterations of a running ZeroOrMore only the
\* last one may have left lex_position where it was, and then no further
\* iteration is started.
C11_ZeroOrMoreStops ==
    \A d \in 1..Len(frames) :
        (frames[d].fn = "exec" /\ Kind(frames[d]) = "zom") =>
            /\ Stalled(frames[d]) \subseteq {Len(frames[d].calls)}
            /\ Stalled(frames[d]) # {} => d = Len(frames)

\* C12: a ZeroOrMore that returns has run its rule until it returned
\* no-match (or, as C11 has it, made no progress), every iteration before the
\* last one matched, and the result holds, in order, the result of every
\* iteration that matched and moved lex_position, whatever its value: 0, '',
\* false and null are appended like any other.
C12_ZeroOrMoreCollectsAll ==
    (last.fn = "exec" /\ Rules[last.rule].kind = "zom") =>
        LET c == last.calls
            n == Len(c)
        IN /\ n > 0
           /\ IsNoMatch(c[n].res) \/ c[n].to = c[n].from
           /\ \A j \in 1..(n - 1) : ~IsNoMatch(c[j].res)
           /\ \/ last.res = List([j \in 1..(n - 1) |-> c[j].res])
              \/ /\ ~IsNoMatch(c[n].res)
                 /\ last.res = List([j \in 1..n |-> c[j].res])

\* the exec of a rule of the given kind has returned
Returned(kind) == last.fn = "exec" /\ Rules[last.rule].kind = kind

\* C13: a Sequence runs its sub-rules in order, the first from the position
\* of the Sequence's entry and each other from where the one before it
\* ended; when all of them match it returns the tuple of their results, at
\* the position the last one ended; at the first one that returns no-match
\* it runs no further sub-rule and returns no-match with lex_position at its
\* value on entry.
C13_SequenceInOrder ==
    Returned("seq") =>
        LET c == last.calls
            n == Len(c)
            subs == Rules[last.rule].subs
        IN /\ n \in 1..Len(subs)
           /\ \A j \in 1..n : c[j].fn = "exec" /\ c[j].rule = subs[j]
           /\ c[1].from = last.entry.lex_position
           /\ \A j \in 2..n : c[j].from = c[j - 1].to
           /\ \A j \in 1..(n - 1) : ~IsNoMatch(c[j].res)
           /\ IF IsNoMatch(c[n].res)
              THEN /\ IsNoMatch(last.res)
                   /\ last.exit.lex_position = last.entry.lex_position
              ELSE /\ n = Len(subs)
                   /\ last.res = List([j \in 1..n |-> c[j].res])
                   /\ last.exit.lex_position = c[n].to

\* a Sequence of three sub-rules whose first consumed a lexeme and whose
\* second returned no-match
C13_Witness ==
    /\ Returned("seq")
    /\ Len(Rules[last.rule].subs) = 3
    /\ Len(last.calls) = 2
    /\ last.calls[1].to > last.calls[1].from
    /\ IsNoMatch(last.res)

\* C14: an Either runs its alternatives in order, each from the position of
\* the Either's entry, up to the first that matches; it returns the result
\* of that one, at the position it ended, and runs no later one; it returns
\* no-match, with lex_position at its value on entry, exactly when it has
\* run all its alternatives and each returned no-match.
C14_EitherFirstMatch ==
    Returned("either") =>
        LET c == last.calls
            n == Len(c)
            subs == Rules[last.rule].subs
        IN /\ n \in 1..Len(subs)
           /\ \A j \in 1..n : c[j].fn = "exec" /\ c[j].rule = subs[j]
           /\ \A j \in 1..n : c[j].from = last.entry.lex_position
           /\ \A j \in 1..(n - 1) : IsNoMatch(c[j].res)
           /\ IF IsNoMatch(c[n].res)
              THEN /\ n = Len(subs)
                   /\ IsNoMatch(last.res)
                   /\ last.exit.lex_position = last.entry.lex_position
              ELSE /\ last.res = c[n].res
                   /\ last.exit.lex_position = c[n].to

\* C15: an Optional never returns no-match: when its rule matches it returns
\* the rule's result at the position the rule ended, and when its rule
\* returns no-match it returns null with lex_position at its value on entry.
C15_OptionalNeverFails ==
    Returned("opt") =>
        LET c == last.calls
        IN /\ Len(c) = 1
           /\ c[1].rule = Rules[last.rule].subs[1]
           /\ c[1].from = last.entry.lex_position
           /\ ~IsNoMatch(last.res)
           /\ IF IsNoMatch(c[1].res)
              THEN /\ IsNull(last.res)
                   /\ last.exit.lex_position = last.entry.lex_position
              ELSE /\ last.res = c[1].res
                   /\ last.exit.lex_position = c[1].to

\* C16: a LookAhead returns what its rule returned, its result or no-match,
\* and leaves lex_position and the save stack as they were at the call.
C16_LookAheadRestores ==
    Returned("la") =>
        LET c == last.calls
        IN /\ Len(c) = 1
           /\ c[1].rule = Rules[last.rule].subs[1]
           /\ c[1].from = last.entry.lex_position
           /\ last.res = c[1].res
           /\ last.exit.lex_position = last.entry.lex_position
           /\ last.exit.stack = last.entry.stack

\* a LookAhead whose rule matched and consumed two lexemes
C16_Witness ==
    /\ Returned("la")
    /\ ~IsNoMatch(last.res)
    /\ last.calls[1].to >= last.calls[1].from + 2

\* C17: a Not returns no-match exactly when its rule matches and null when
\* it does not, and leaves lex_position as it was at the call.
C17_NotInverts ==
    Returned("not") =>
        LET c == last.calls
        IN /\ Len(c) = 1
           /\ c[1].rule = Rules[last.rule].subs[1]
           /\ c[1].from = last.entry.lex_position
           /\ IsNoMatch(last.res) <=> ~IsNoMatch(c[1].res)
           /\ ~IsNoMatch(last.res) => IsNull(last.res)
           /\ last.exit.lex_position = last.entry.lex_position

\* a Not whose rule matched and consumed a lexeme
C17_Witness ==
    /\ Returned("not")
    /\ IsNoMatch(last.res)
    /\ last.calls[1].to > last.calls[1].from

\* C18: a OneOrMore matches exactly when its rule matches at least once at
\* the position of entry, and then returns the list of its ZeroOrMore at the
\* position the ZeroOrMore ended; when it returns no-match lex_position is at
\* its value on entry.
C18_OneOrMore ==
    (Returned("tr") /\ Rules[last.rule].tr = "nonEmpty") =>
        LET c == last.calls
        IN /\ Len(c) = 1
           /\ Rules[c[1].rule].kind = "zom"
           /\ c[1].from = last.entry.lex_position
           /\ ~IsNoMatch(last.res) <=> c[1].hits >= 1
           /\ ~IsNoMatch(last.res) =>
                 /\ last.res = c[1].res
                 /\ last.exit.lex_position = c[1].to
           /\ IsNoMatch(last.res) =>
                 last.exit.lex_position = last.entry.lex_position

NotSkipped(l) == ~Tokens[l.token].skip

\* the lexemes that are not skipped among those the last call consumed
Consumed ==
    SelectSeq(SubSeq(input.lexemes, last.entry.lex_position + 2,
                     last.exit.lex_position + 1), NotSkipped)

\* C20: List(A, B) matches exactly when Sequence(A, ZeroOrMore(Sequence(B,
\* A))) does, and ends at the same position; the lexemes it consumes are an
\* A followed by pairs of a B and an A, and its result is the A lexemes
\* among them, in order, one more than there are pairs; it ends on an A, a
\* separator with no A after it being left unconsumed; when it returns
\* no-match lex_position is at its value on entry.
C20_ListOfSeparated ==
    (Returned("tr") /\ last.rule = "listAB") =>
        LET c == last.calls
            cons == Consumed
            n == Len(cons)
        IN /\ Len(c) = 1
           /\ c[1].rule = "listSeq"
           /\ c[1].from = last.entry.lex_position
           /\ IsNoMatch(last.res) <=> IsNoMatch(c[1].res)
           /\ IsNoMatch(last.res) =>
                 last.exit.lex_position = last.entry.lex_position
           /\ ~IsNoMatch(last.res) =>
                 /\ last.exit.lex_position = c[1].to
                 /\ n % 2 = 1
                 /\ \A k \in 1..n :
                       cons[k].token = (IF k % 2 = 1 THEN "A" ELSE "B")
                 /\ last.res = List([k \in 1..((n + 1) \div 2) |->
                                        cons[2 * k - 1]])
                 /\ input.lexemes[last.exit.lex_position + 1].token = "A"

\* a List of three elements, with skipped lexemes among them, that left a
\* trailing separator unconsumed
C20_Witness ==
    /\ Returned("tr")
    /\ last.rule = "listAB"
    /\ ~IsNoMatch(last.res)
    /\ Len(last.res.v) = 3
    /\ Len(input.lexemes) > last.exit.lex_position + 1
    /\ input.lexemes[last.exit.lex_position + 2].token = "B"
    /\ last.exit.lex_position - last.entry.lex_position > 5

\* the lexeme vector as it was when the last call returned
Vector == SubSeq(input.lexemes, 1, last.exit.nlexemes)

\* the vector indices after the entry position of the last call whose lexeme
\* is of token t or of a token that was not skippable at the call
Candidates(t) ==
    {p \in (last.entry.lex_position + 1)..(Len(Vector) - 1) :
        Vector[p + 1].token = t \/ ~last.skip0[Vector[p + 1].token]}

\* C21: Any consumes the first lexeme after lex_position that is not
\* skippable and returns it, whatever its token; it returns no-match exactly
\* when the source is lexed to its end and holds no such lexeme.
C21_AnyTakesNext ==
    Returned("any") =>
        IF Candidates("") = {}
        THEN /\ IsNoMatch(last.res)
             /\ last.exit.last_index = Len(input.string)
        ELSE /\ last.res = Vector[Min(Candidates("")) + 1]
             /\ last.exit.lex_position = Min(Candidates(""))

\* Any returned a lexeme after skipping one
C21_Witness ==
    /\ Returned("any")
    /\ IsLex(last.res)
    /\ last.exit.lex_position >= last.entry.lex_position + 2

\* C22: TokenRule.exec of token T looks at the first lexeme after
\* lex_position that is of T or of a token that is not skippable: when there
\* is one and it is of T it returns it, with lex_position at its place in
\* the vector; otherwise it returns no-match with lex_position unchanged.
C22_TokenMatchesByIdentity ==
    Returned("token") =>
        LET cand == Candidates(last.rule)
        IN IF cand # {} /\ Vector[Min(cand) + 1].token = last.rule
           THEN /\ last.res = Vector[Min(cand) + 1]
                /\ last.exit.lex_position = Min(cand)
           ELSE /\ IsNoMatch(last.res)
                /\ last.exit.lex_position = last.entry.lex_position
                /\ cand = {} => last.exit.last_index = Len(input.string)

\* the TokenRule of a skipped token matched a lexeme that an earlier rule
\* had lexed and skipped
C22_Witness ==
    /\ Returned("token")
    /\ last.skip0[last.rule]
    /\ IsLex(last.res)
    /\ last.entry.nlexemes > last.entry.lex_position + 1

\* the kinds of rule whose exec protectLexerState wraps
Protected == {"tr", "seq", "either", "zom", "opt", "lang"}

\* C23: when an exec returns, every skippable flag has the value it had at
\* the call, and when a rule wrapped by protectLexerState returns no-match
\* lex_position has it too; once Sequence(WS, B) has failed after its WS
\* matched, the next alternative A skips the WS lexeme again.
C23_UnskipLeaksNothing ==
    /\ last.fn = "exec" => last.skip1 = last.skip0
    /\ (last.fn = "exec" /\ Rules[last.rule].kind \in Protected
            /\ IsNoMatch(last.res)) =>
          last.exit.lex_position = last.entry.lex_position
    /\ (Returned("either") /\ last.rule = "WSBorA"
            /\ last.entry.lex_position = -1 /\ last.skip0["WS"]
            /\ Len(Vector) >= 2
            /\ Vector[1].token = "WS" /\ Vector[2].token = "A") =>
          last.res = Vector[2]

\* Sequence(WS, B) returned no-match after the TokenRule of the skipped WS
\* had matched a lexeme
C23_Witness ==
    /\ Returned("seq")
    /\ IsNoMatch(last.res)
    /\ Len(last.calls) = 2
    /\ last.skip0[last.calls[1].rule]
    /\ IsLex(last.calls[1].res)
    /\ last.calls[1].to > last.calls[1].from

\* C24: an exec that returns a match returns with lex_position at or after
\* its value on entry.
C24_NeverBackwards ==
    (last.fn = "exec" /\ ~IsNoMatch(last.res)) =>
        last.exit.lex_position >= last.entry.lex_position

\* a rule matched after an attempt that had read further was rolled back
C24_Witness ==
    /\ last.fn = "exec"
    /\ ~IsNoMatch(last.res)
    /\ last.exit.lex_position > last.entry.lex_position
    /\ last.exit.lex_position + 1 < last.exit.nlexemes
    /\ last.exit.nrollback > last.entry.nrollback

\* C25: a ZeroOrMore whose rule does not match at all returns the empty list
\* with lex_position at its value on entry; on the empty source a top rule
\* that is a ZeroOrMore makes parse return the empty list.
C25_ZeroOrMoreEmpty ==
    /\ (Returned("zom") /\ Len(last.calls) = 1
            /\ IsNoMatch(last.calls[1].res)) =>
          /\ last.res = List(<<>>)
          /\ last.exit.lex_position = last.entry.lex_position
    /\ (Finished /\ input.string = <<>>
            /\ Rules[Rules[outcome.rule].subs[1]].kind = "zom") =>
          /\ outcome.kind = "returned"
          /\ outcome.value = List(<<>>)

\* well-formed expressions and their arithmetic values
WellFormed ==
    { [src |-> <<"1", " ", "+", " ", "2">>, value |-> 3],
      [src |-> <<"1", "+", "2">>, value |-> 3],
      [src |-> <<" ", "1", " ", "+", "2", "\n">>, value |-> 3],
      [src |-> <<"1", "0", " ", "-", " ", "2", " ", "-", " ", "3">>,
       value |-> 5],
      [src |-> <<"8", "-", "2", "+", "3">>, value |-> 9],
      [src |-> <<"8", "/", "2", "/", "2">>, value |-> 2],
      [src |-> <<"2", "+", "3", "*", "2">>, value |-> 8],
      [src |-> <<"2", "*", "3", "+", "2">>, value |-> 8],
      [src |-> <<"(", "2", "+", "3", ")", "*", "2">>, value |-> 10],
      [src |-> <<" ", "2", "*", "(", "2", "+", "1", ")", " ", "+", "1", "0",
                 "/", "2", " ">>, value |-> 11] }

\* C27: the calculator returns the arithmetic value of a well-formed
\* expression: * and / bind tighter than + and -, operators of the same
\* precedence are folded from the left, parentheses override precedence and
\* whitespace changes nothing.
C27_CalcValue ==
    (Finished /\ input.tokens = TokenLists["calc"]) =>
        \A e \in WellFormed :
            input.string = e.src =>
                /\ outcome.kind = "returned"
                /\ outcome.value = Num(e.value)

\* the calculator returned 5 for 10 - 2 - 3
C27_Witness ==
    /\ Finished
    /\ input.tokens = TokenLists["calc"]
    /\ input.string = <<"1", "0", " ", "-", " ", "2", " ", "-", " ", "3">>
    /\ outcome.kind = "returned"
    /\ outcome.value = Num(5)

FurthestIsMaximal ==
    IF seen = {} THEN IsNull(input.last_lexeme)
    ELSE /\ \E i \in seen : input.last_lexeme = input.lexemes[i]
         /\ \A i \in seen : input.lexemes[i].index <= input.last_lexeme.index

\* C30: during a parse, after every step, last_lexeme is the lexeme of
\* greatest index among those peek and next have returned, null if there is
\* none; once set it stays set and its index never decreases; a step in
\* which rollback runs does not change it.
C30_FurthestLexeme ==
    [][/\ frames' # <<>> => FurthestIsMaximal'
       /\ (frames # <<>> /\ ~IsNull(input.last_lexeme)) =>
             /\ ~IsNull(input'.last_lexeme)
             /\ input'.last_lexeme.index >= input.last_lexeme.index
       /\ RollbackStep => input'.last_lexeme = input.last_lexeme
      ]_vars

\* after a rollback, lex_position is before the furthest lexeme and a later
\* peek or next has returned a lexeme before it
C30_Witness ==
    /\ last.fn \in {"peek", "next"}
    /\ IsLex(last.res)
    /\ input.nrollback > 0
    /\ ~IsNull(input.last_lexeme)
    /\ last.res.index < input.last_lexeme.index

\* C29: within a parse, two executions of the same rule from the same
\* lex_position return the same result and end at the same lex_position,
\* however far the Input had lexed when each of them started.
C29_IndependentOfLexingHistory ==
    \A a, b \in last.memo :
        (a.rule = b.rule /\ a.from = b.from) =>
            /\ a.res = b.res
            /\ a.to = b.to

\* a rule that matched twice from the same position, the first time lexing
\* what it consumed and the second time finding it in the vector
C29_Witness ==
    \E a, b \in last.memo :
        /\ a.rule = b.rule
        /\ a.from = b.from
        /\ a.nlexemes = a.from + 1
        /\ b.nlexemes > a.to + 1
        /\ IsLex(a.res)
        /\ a.to > a.from + 1

RECURSIVE Reach(_)
\* the rules reachable from the rules of S through their sub-rules
Reach(S) ==
    LET T == S \cup UNION {{Rules[r].subs[k] : k \in 1..Len(Rules[r].subs)} :
                              r \in S}
    IN IF T = S THEN S ELSE Reach(T)

\* the grammar of L asks explicitly for a token that is skipped
AsksSkipped(L) ==
    \E r \in Reach({L}) : Rules[r].kind = "token" /\ skippable[r]

\* the source is lexed to its end and all its lexemes are of skipped tokens
AllSkipped ==
    /\ input.last_index = Len(input.string)
    /\ \A i \in 1..Len(input.lexemes) : skippable[input.lexemes[i].token]

\* the parse ended as the parse of the empty source with the same rule did
AsOnEmpty ==
    /\ outcome.kind = outcome.prev.kind
    /\ outcome.value = outcome.prev.value

\* C26 as stated: for every grammar, parse of a source that is all lexemes
\* of skipped tokens ends as parse of the empty source does.
C26_SkippedIsEmpty ==
    (Finished /\ outcome.prev.kind # "none" /\ AllSkipped) => AsOnEmpty

\* C26 amended: for every grammar that does not ask explicitly for a
\* skipped token, parse of a source that is all lexemes of skipped tokens
\* ends as parse of the empty source does.
C26_SkippedIsEmptyUnlessAsked ==
    (Finished /\ outcome.prev.kind # "none" /\ AllSkipped
        /\ ~AsksSkipped(outcome.rule)) => AsOnEmpty

\* a parse of a source of two skipped characters or more returned the empty
\* list, as the parse of the empty source had
C26_Witness ==
    /\ Finished
    /\ outcome.prev.kind = "returned"
    /\ AllSkipped
    /\ ~AsksSkipped(outcome.rule)
    /\ Len(input.string) >= 2
    /\ outcome.value = List(<<>>)

\* the vector indices after the entry position of the last call that the
\* call may stop at: every one, or with skip those of no skippable token
After ==
    IF last.skip THEN Candidates("")
    ELSE (last.entry.lex_position + 1)..(Len(Vector) - 1)

\* what the last call of peek or next returned and where it left lex_position
NextLexemeReturned ==
    last.fn \in {"peek", "next"} =>
        /\ IF After = {}
           THEN IsNull(last.res) /\ last.exit.last_index = Len(input.string)
           ELSE last.res = Vector[Min(After) + 1]
        /\ (~last.skip /\ After # {}) =>
              last.res = Vector[last.entry.lex_position + 2]
        /\ (last.fn = "next" /\ After # {}) =>
              last.exit.lex_position = Min(After)
        /\ last.fn = "peek" =>
              last.exit.lex_position = last.entry.lex_position

\* a step in which a call of peek or next by the caller returns
CallReturns ==
    /\ Len(frames) = 2
    /\ frames[1].fn = "caller"
    /\ Len(frames') = 1

\* C31: next(skip = true) returns the first lexeme after lex_position whose
\* token is not skippable, lexing more of the source when the vector holds
\* none, and sets lex_position to its index; next(skip = false) returns the
\* lexeme at lex_position + 1 whatever its token; peek returns what next
\* would and leaves lex_position alone; a call of peek or next that follows
\* a peek with the same skip returns what that peek returned.
C31_NextAndPeek ==
    [][/\ NextLexemeReturned'
       /\ (CallReturns /\ last.fn = "peek" /\ last.skip = F.skip) =>
             ret' = last.res
      ]_vars

\* next(skip = false) lexed a lexeme of a skippable token and returned it,
\* with lex_position on it
C31_Witness ==
    /\ last.fn = "next"
    /\ ~last.skip
    /\ IsLex(last.res)
    /\ last.skip0[last.res.token]
    /\ last.entry.nlexemes = last.entry.lex_position + 1
    /\ last.entry.lex_position >= 0
    /\ input.lex_position = last.entry.lex_position + 1

\* the lexeme l records where its first character is in the source str
PositionedIn(l, str) ==
    /\ l.index >= 0
    /\ l.index + Len(l.text) <= Len(str)
    /\ l.text = SubSeq(str, l.index + 1, l.index + Len(l.text))
    /\ l.line = LineAt(str, l.index)
    /\ l.column = ColumnAt(str, l.index)

\* C32: every lexeme the Input creates records where its first character
\* is: index is its offset in the source, where its text stands, line is 1
\* plus the number of newlines before that offset and column is 1 plus the
\* number of characters since the last of them, or since the start of the
\* source.
C32_LexemePositions ==
    [][\A i \in (Len(input.lexemes) + 1)..Len(input'.lexemes) :
          PositionedIn(input'.lexemes[i], input'.string)
      ]_vars

\* a lexeme past the first column of a later line that follows a lexeme
\* whose text has a newline and characters after it
C32_Witness ==
    \E i \in 2..Len(input.lexemes) :
        /\ \E k \in 1..(Len(input.lexemes[i - 1].text) - 1) :
              input.lexemes[i - 1].text[k] = "\n"
        /\ input.lexemes[i].line >= 2
        /\ input.lexemes[i].column >= 2
        /\ input.lexemes[i].index = input.lexemes[i - 1].index
                                      + Len(input.lexemes[i - 1].text)

\* the fields of an Input, without the history
State(inp) ==
    [tokens |-> inp.tokens, lexemes |-> inp.lexemes, stack |-> inp.stack,
     last_lexeme |-> inp.last_lexeme, lex_position |-> inp.lex_position,
     last_index |-> inp.last_index, current_line |-> inp.current_line,
     current_column |-> inp.current_column, string |-> inp.string]

\* C33: after feed(str) on an Input that was used, the Input is in the state
\* of a new Input that was fed str, and the lexemes peek and next return
\* from then on are lexemes of str.
C33_FeedResets ==
    /\ (Idle /\ last.fn = "feed") =>
          State(input) = State(feed(NewInput(input.tokens), input.string))
    /\ (Idle /\ F.i > 0 /\ last.fn \in {"peek", "next"} /\ IsLex(last.res)) =>
          PositionedIn(last.res, input.string)

\* C37: a call of next that returns null leaves lex_position at its value
\* before the call.
C37_NullKeepsPosition ==
    (last.fn = "next" /\ IsNull(last.res)) =>
        last.exit.lex_position = last.entry.lex_position

\* C36: lex_position is -1 or the index of a lexeme of the vector, so is
\* every value on the save stack, and last_index is not past the end of the
\* source.
C36_PositionsInBounds ==
    /\ -1 <= input.lex_position
    /\ input.lex_position <= Len(input.lexemes) - 1
    /\ \A k \in 1..Len(input.stack) :
          -1 <= input.stack[k] /\ input.stack[k] <= Len(input.lexemes) - 1
    /\ 0 <= input.last_index
    /\ input.last_index <= Len(input.string)

\* the source is lexed to its end, lex_position is on the last lexeme of
\* the vector and the stack holds the index of an earlier lexeme
C36_Witness ==
    /\ input.stack # <<>>
    /\ Top(input.stack) >= 0
    /\ input.lex_position > Top(input.stack)
    /\ input.lex_position = Len(input.lexemes) - 1
    /\ input.string # <<>>
    /\ input.last_index = Len(input.string)

\* a step in which parse ends by raising an error
ParseRaises ==
    /\ frames # <<>>
    /\ frames[1].fn = "parse"
    /\ frames' = <<>>
    /\ outcome'.kind \in {"illegal", "unexpected"}

\* C35: when parse ends by raising an error, every TokenRule's skippable
\* flag has the value it had when parse was called.
C35_FlagsRestoredOnError ==
    [][ParseRaises => skippable' = frames[1].skip0]_vars

\* the activations of a LanguageRule that is not the one parse was called
\* on and whose inner rule is running
Nested ==
    {k \in 3..Len(frames) :
        frames[k].fn = "exec" /\ Kind(frames[k]) = "lang" /\ frames[k].pc = "sub"}

\* C34: while the inner rule of a LanguageRule that is not the one parse was
\* called on runs, the Input it reads tokenises with the token list of that
\* LanguageRule, and started with an empty lexeme vector.
C34_NestedLanguageClones ==
    \A k \in Nested :
        /\ input.tokens = TokenLists[Rules[frames[k].rule].list]
        /\ frames[k + 1].entry.nlexemes = 0

\* the activations of an Either one alternative of which is about to run
Alternating ==
    {k \in 1..(Len(sframes) - 1) :
        /\ StreamKind(sframes[k]) \in {"either", "either5"}
        /\ sframes[k].pc = "sub"
        /\ sframes[k + 1].pc = "start"}

\* C38: on a TokenStream, every alternative of an Either starts at the
\* position the Either was entered at, and Either(Str('+'), Str('-')), of
\* rule.ts or of part_005, matches when the token at that position is '-'.
C38_EitherFromEntry ==
    /\ \A k \in Alternating : stream.position = sframes[k].entry
    /\ (/\ sframes = <<>>
        /\ slast.rule \in {"S_either", "Str5_either"}
        /\ stream.arr # <<>>
        /\ toString(stream.arr[1]) = <<"-">>) =>
          slast.res.t \notin {"no_match", "null"}

\* C39: ZeroOrMoreRule.exec of rule.ts ends the first time its rule returns
\* NO_MATCH: it never goes on after a NO_MATCH, which it would push on its
\* list, and the list it returns holds no NO_MATCH.
C39_ZeroOrMoreEndsOnNoMatch ==
    /\ \A k \in 1..Len(sframes) :
          StreamKind(sframes[k]) = "zom" =>
              \A j \in 1..Len(sframes[k].res) : ~IsNO_MATCH(sframes[k].res[j])
    /\ (slast.rule # "" /\ StreamRules[slast.rule].kind = "zom") =>
          /\ slast.res.t = "list"
          /\ \A j \in 1..Len(slast.res.v) : ~IsNO_MATCH(slast.res.v[j])

====
